---- MODULE Spec2Model ----
(***************************************************************************)
(* A model of pleep: the index codec (pleep-build/src/file.rs), the build  *)
(* driver (pleep-build/src/main.rs) and the search kernel                  *)
(* (pleep-search/src/main.rs).                                             *)
(*                                                                         *)
(* The module holds several state machines over disjoint groups of        *)
(* variables.  Each has its own specification (SpecCodec, SpecBuild,       *)
(* SpecSearch, ...); the variables of the other machines stay at their     *)
(* idle value.                                                             *)
(***************************************************************************)
EXTENDS Integers, Sequences, FiniteSets, TLC

VARIABLES
    \* ---- index codec: one File written to a byte buffer and read back
    file,           \* the File handed to File::write_to
    buffer,         \* the bytes the reader is given
    damage,         \* what happened to the bytes between write and read
    readResult,     \* the Result of File::read_from
    cpc,            \* position of the codec run
    \* ---- build driver
    corpus,         \* the files of the directory, with what their task does
    bworkers,       \* number of worker threads of the pool
    btask,          \* state of each per-file task
    bspawned,       \* number of files the spawn loop has gone through
    bchan,          \* the result channel: segments sent, not yet received
    segments,       \* out_file_values.segments
    arrived,        \* history: the segments in their order of arrival
    out_file,       \* the bytes written to the output file
    bpc,            \* position of the build driver's main
    \* ---- search kernel
    sopt,           \* the index, the query and the options of one search
    stask,          \* state of each (trim, slice) task
    schan,          \* the result channel: tasks whose map is in flight
    strim,          \* number of trim sets the spawn loop has gone through
    errors,         \* the merged error of each segment index
    n_results,      \* options.n_results, read by the last step only
    top_n,          \* the reported matches
    spc,            \* position of the search's main
    \* ---- spectrogram stage (SpectrogramIterator, LogSpectrogramIterator)
    gset,           \* the settings and the length of the inner stream
    gpos,           \* number of samples taken from the inner stream
    gbuffer,        \* SpectrogramIterator.buffer
    gwindows,       \* history: the sample windows of the columns emitted
    glog,           \* the log columns emitted
    glast,          \* what the last call of next returned
    gpc,            \* position of the consumer of the log spectrogram
    \* ---- audio stage (ConvertingAudioIterator, ResamplingChunksIterator)
    aset,           \* the source, the consumer and the chunk size
    ainner,         \* the state of the innermost iterator
    achunks,        \* history: the chunks passed to the resampler
    aout,           \* what the consumer has collected
    alast,          \* what the last call of the outermost next returned
    apc,            \* position of the consumer of the audio
    \* ---- FFT planner and Hann cache (spectrogram::Generator)
    hset,           \* how the calls get their Generator, and their fft_len
    hcall,          \* state of each call of SpectrogramIterator::new
    hanns,          \* Generator.hanns of each live Generator
    hreaders,       \* the calls that hold the read lock of each hanns
    hwriter,        \* the call that holds the write lock of each hanns
    hplans,         \* the lengths planned by each Generator's fft_planner
    hmade           \* history: the lengths a window was inserted for

codecVars == <<file, buffer, damage, readResult, cpc>>
buildVars == <<corpus, bworkers, btask, bspawned, bchan, segments, arrived, out_file, bpc>>
searchVars == <<sopt, stask, schan, strim, errors, n_results, top_n, spc>>
spectVars == <<gset, gpos, gbuffer, gwindows, glog, glast, gpc>>
audioVars == <<aset, ainner, achunks, aout, alast, apc>>
hannVars == <<hset, hcall, hanns, hreaders, hwriter, hplans, hmade>>
streamVars == <<spectVars, audioVars, hannVars>>
vars == <<codecVars, buildVars, searchVars, streamVars>>

(***************************************************************************)
(* Generic helpers.                                                        *)
(***************************************************************************)
Min(a, b) == IF a <= b THEN a ELSE b

Range(s) == {s[i] : i \in DOMAIN s}

IsPrefix(p, s) == Len(p) <= Len(s) /\ SubSeq(s, 1, Len(p)) = p

(***************************************************************************)
(* Bytes, u32 and f32.                                                     *)
(*                                                                         *)
(* A u32 is a natural number.  An f32 is its IEEE-754 bit pattern, written *)
(* as the four bytes of the pattern from the most significant to the least *)
(* significant (1.0f32 = 0x3F800000 is <<63, 128, 0, 0>>).                 *)
(***************************************************************************)
\* The largest count the model represents exactly (TLC's integers are 32-bit
\* signed).  A u32 of 2^31 or more is read as this value; every
\* buffer of the model is far shorter, so such a count fails the next read.
HugeU32 == 2147483646 + 1

\* u32::to_le_bytes
u32_to_le_bytes(x) ==
    << x % 256, (x \div 256) % 256, (x \div 65536) % 256, (x \div 16777216) % 256 >>

\* u32::from_le_bytes
u32_from_le_bytes(b) ==
    IF b[4] >= 128 THEN HugeU32
    ELSE b[1] + 256 * b[2] + 65536 * b[3] + 16777216 * b[4]

\* f32::to_le_bytes: the least significant byte of the pattern first
f32_to_le_bytes(v) == << v[4], v[3], v[2], v[1] >>

\* f32::from_le_bytes
f32_from_le_bytes(b) == << b[4], b[3], b[2], b[1] >>

(***************************************************************************)
(* UTF-8, as String::from_utf8 validates it (the well-formed byte          *)
(* sequences of the Unicode standard, table 3-7).                          *)
(***************************************************************************)
IsCont(b) == b >= 128 /\ b <= 191

\* The length of the well-formed character starting at s[i], or 0.
Utf8CharLen(s, i) ==
    LET n == Len(s)
        b0 == s[i]
        b1 == IF i + 1 <= n THEN s[i + 1] ELSE 0
        b2 == IF i + 2 <= n THEN s[i + 2] ELSE 0
        b3 == IF i + 3 <= n THEN s[i + 3] ELSE 0
    IN  IF b0 < 128 THEN 1
        ELSE IF b0 >= 194 /\ b0 <= 223
            THEN (IF IsCont(b1) THEN 2 ELSE 0)
        ELSE IF b0 = 224
            THEN (IF b1 >= 160 /\ b1 <= 191 /\ IsCont(b2) THEN 3 ELSE 0)
        ELSE IF (b0 >= 225 /\ b0 <= 236) \/ b0 = 238 \/ b0 = 239
            THEN (IF IsCont(b1) /\ IsCont(b2) THEN 3 ELSE 0)
        ELSE IF b0 = 237
            THEN (IF b1 >= 128 /\ b1 <= 159 /\ IsCont(b2) THEN 3 ELSE 0)
        ELSE IF b0 = 240
            THEN (IF b1 >= 144 /\ b1 <= 191 /\ IsCont(b2) /\ IsCont(b3) THEN 4 ELSE 0)
        ELSE IF b0 >= 241 /\ b0 <= 243
            THEN (IF IsCont(b1) /\ IsCont(b2) /\ IsCont(b3) THEN 4 ELSE 0)
        ELSE IF b0 = 244
            THEN (IF b1 >= 128 /\ b1 <= 143 /\ IsCont(b2) /\ IsCont(b3) THEN 4 ELSE 0)
        ELSE 0

RECURSIVE Utf8ValidFrom(_, _)
Utf8ValidFrom(s, i) ==
    IF i > Len(s) THEN TRUE
    ELSE LET k == Utf8CharLen(s, i)
         IN  k > 0 /\ Utf8ValidFrom(s, i + k)

\* String::from_utf8(bytes).is_ok()
from_utf8_ok(s) == Utf8ValidFrom(s, 1)

(***************************************************************************)
(* The index codec: pleep-build/src/file.rs.                               *)
(***************************************************************************)

\* BuildSettings::write_to: the seven settings, each as a little-endian u32
BuildSettings_write_to(bs) ==
    u32_to_le_bytes(bs.fft_size)
        \o u32_to_le_bytes(bs.fft_overlap)
        \o u32_to_le_bytes(bs.spectrogram_height)
        \o u32_to_le_bytes(bs.spectrogram_max_frequency)
        \o u32_to_le_bytes(bs.resample_rate)
        \o u32_to_le_bytes(bs.resample_chunk_size)
        \o u32_to_le_bytes(bs.resample_sub_chunks)

\* the inner loop of Segment::write_to: every value of one vector
RECURSIVE WriteValues(_)
WriteValues(vector) ==
    IF vector = <<>> THEN <<>>
    ELSE f32_to_le_bytes(Head(vector)) \o WriteValues(Tail(vector))

\* the outer loop of Segment::write_to: every vector, with no length prefix
RECURSIVE WriteVectors(_)
WriteVectors(vectors) ==
    IF vectors = <<>> THEN <<>>
    ELSE WriteValues(Head(vectors)) \o WriteVectors(Tail(vectors))

\* Mutant of Segment_write_to: the vector count is written before the title.
Segment_write_to_count_first(seg) ==
    u32_to_le_bytes(Len(seg.title))
        \o u32_to_le_bytes(Len(seg.vectors))
        \o seg.title
        \o WriteVectors(seg.vectors)

\* Segment::write_to
Segment_write_to(seg) ==
    u32_to_le_bytes(Len(seg.title))
        \o seg.title
        \o u32_to_le_bytes(Len(seg.vectors))
        \o WriteVectors(seg.vectors)

\* the loop of File::write_to over the segments
RECURSIVE WriteSegments(_)
WriteSegments(segs) ==
    IF segs = <<>> THEN <<>>
    ELSE Segment_write_to(Head(segs)) \o WriteSegments(Tail(segs))

\* File::write_to into an in-memory buffer (which never fails)
File_write_to(f) ==
    BuildSettings_write_to(f.build_settings)
        \o u32_to_le_bytes(Len(f.segments))
        \o WriteSegments(f.segments)

(***************************************************************************)
(* Reading.  A reader is the byte sequence and the number of bytes already *)
(* consumed.                                                               *)
(***************************************************************************)

\* Mutant of read_exact: a short read is not an error, the missing bytes
\* stay 0 (Read::read with its count ignored).
read_exact_zero_fill(bytes, pos, n) ==
    IF n <= Len(bytes) - pos
    THEN [ok |-> TRUE, buf |-> SubSeq(bytes, pos + 1, pos + n), pos |-> pos + n]
    ELSE IF n > 64
    THEN [ok |-> FALSE, buf |-> <<>>, pos |-> Len(bytes)]
    ELSE [ok |-> TRUE,
          buf |-> [k \in 1..n |-> IF pos + k <= Len(bytes) THEN bytes[pos + k] ELSE 0],
          pos |-> Len(bytes)]

\* Read::read_exact: the next n bytes, or an error when fewer are left
read_exact(bytes, pos, n) ==
    IF n <= Len(bytes) - pos
    THEN [ok |-> TRUE, buf |-> SubSeq(bytes, pos + 1, pos + n), pos |-> pos + n]
    ELSE [ok |-> FALSE, buf |-> <<>>, pos |-> Len(bytes)]

\* read_exact into a [0; 4] buffer, then u32::from_le_bytes
read_u32(bytes, pos) ==
    LET r == read_exact(bytes, pos, 4)
    IN  [ok |-> r.ok, val |-> IF r.ok THEN u32_from_le_bytes(r.buf) ELSE 0, pos |-> r.pos]

\* k successive u32 reads, stopping at the first failure
RECURSIVE ReadWords(_, _, _)
ReadWords(bytes, pos, k) ==
    IF k = 0 THEN [ok |-> TRUE, vals |-> <<>>, pos |-> pos]
    ELSE LET w == read_u32(bytes, pos)
         IN  IF ~w.ok THEN [ok |-> FALSE, vals |-> <<>>, pos |-> w.pos]
             ELSE LET rest == ReadWords(bytes, w.pos, k - 1)
                  IN  [ok |-> rest.ok, vals |-> <<w.val>> \o rest.vals, pos |-> rest.pos]

NoSettings ==
    [fft_size |-> 0, fft_overlap |-> 0, spectrogram_height |-> 0,
     spectrogram_max_frequency |-> 0, resample_rate |-> 0,
     resample_chunk_size |-> 0, resample_sub_chunks |-> 0]

\* BuildSettings::read_from
BuildSettings_read_from(bytes, pos) ==
    LET r == ReadWords(bytes, pos, 7)
    IN  IF ~r.ok THEN [ok |-> FALSE, bs |-> NoSettings, pos |-> r.pos]
        ELSE [ok |-> TRUE,
              bs |-> [fft_size |-> r.vals[1], fft_overlap |-> r.vals[2],
                      spectrogram_height |-> r.vals[3],
                      spectrogram_max_frequency |-> r.vals[4],
                      resample_rate |-> r.vals[5],
                      resample_chunk_size |-> r.vals[6],
                      resample_sub_chunks |-> r.vals[7]],
              pos |-> r.pos]

\* the inner loop of Segment::read_from: vector_length values of one vector
RECURSIVE ReadValues(_, _, _)
ReadValues(bytes, pos, k) ==
    IF k = 0 THEN [ok |-> TRUE, vals |-> <<>>, pos |-> pos]
    ELSE LET r == read_exact(bytes, pos, 4)
         IN  IF ~r.ok THEN [ok |-> FALSE, vals |-> <<>>, pos |-> r.pos]
             ELSE LET rest == ReadValues(bytes, r.pos, k - 1)
                  IN  [ok |-> rest.ok,
                       vals |-> <<f32_from_le_bytes(r.buf)>> \o rest.vals,
                       pos |-> rest.pos]

\* Mutant of ReadVectors: each vector is inserted at the front of the list.
RECURSIVE ReadVectorsReversed(_, _, _, _)
ReadVectorsReversed(bytes, pos, n, vector_length) ==
    IF n = 0 THEN [ok |-> TRUE, vecs |-> <<>>, pos |-> pos]
    ELSE LET v == ReadValues(bytes, pos, vector_length)
         IN  IF ~v.ok THEN [ok |-> FALSE, vecs |-> <<>>, pos |-> v.pos]
             ELSE LET rest == ReadVectorsReversed(bytes, v.pos, n - 1, vector_length)
                  IN  [ok |-> rest.ok, vecs |-> rest.vecs \o <<v.vals>>, pos |-> rest.pos]

\* the outer loop of Segment::read_from: n_vectors vectors
RECURSIVE ReadVectors(_, _, _, _)
ReadVectors(bytes, pos, n, vector_length) ==
    IF n = 0 THEN [ok |-> TRUE, vecs |-> <<>>, pos |-> pos]
    ELSE LET v == ReadValues(bytes, pos, vector_length)
         IN  IF ~v.ok THEN [ok |-> FALSE, vecs |-> <<>>, pos |-> v.pos]
             ELSE LET rest == ReadVectors(bytes, v.pos, n - 1, vector_length)
                  IN  [ok |-> rest.ok, vecs |-> <<v.vals>> \o rest.vecs, pos |-> rest.pos]

NoSegment == [title |-> <<>>, vectors |-> <<>>]

SegErr(kind, pos) == [ok |-> FALSE, err |-> kind, seg |-> NoSegment, pos |-> pos]

\* Segment::read_from
Segment_read_from(bytes, pos, vector_length) ==
    LET tl == read_u32(bytes, pos)
    IN  IF ~tl.ok THEN SegErr("Io", tl.pos)
        ELSE LET tb == read_exact(bytes, tl.pos, tl.val)
             IN  IF ~tb.ok THEN SegErr("Io", tb.pos)
                 ELSE IF ~from_utf8_ok(tb.buf) THEN SegErr("FromUtf8", tb.pos)
                 ELSE LET nv == read_u32(bytes, tb.pos)
                      IN  IF ~nv.ok THEN SegErr("Io", nv.pos)
                          ELSE LET vs == ReadVectors(bytes, nv.pos, nv.val, vector_length)
                               IN  IF ~vs.ok THEN SegErr("Io", vs.pos)
                                   ELSE [ok |-> TRUE, err |-> "",
                                         seg |-> [title |-> tb.buf, vectors |-> vs.vecs],
                                         pos |-> vs.pos]

\* the loop of File::read_from over the n_segments declared segments
RECURSIVE ReadSegments(_, _, _, _)
ReadSegments(bytes, pos, n, vector_length) ==
    IF n = 0 THEN [ok |-> TRUE, err |-> "", segs |-> <<>>, pos |-> pos]
    ELSE LET s == Segment_read_from(bytes, pos, vector_length)
         IN  IF ~s.ok THEN [ok |-> FALSE, err |-> s.err, segs |-> <<>>, pos |-> s.pos]
             ELSE LET rest == ReadSegments(bytes, s.pos, n - 1, vector_length)
                  IN  [ok |-> rest.ok, err |-> rest.err,
                       segs |-> <<s.seg>> \o rest.segs, pos |-> rest.pos]

NoFile == [build_settings |-> NoSettings, segments |-> <<>>]

FileErr(kind) == [tag |-> "Err", err |-> kind, file |-> NoFile]

\* File::read_from
File_read_from(bytes) ==
    LET bs == BuildSettings_read_from(bytes, 0)
    IN  IF ~bs.ok THEN FileErr("Io")
        ELSE LET n == read_u32(bytes, bs.pos)
             IN  IF ~n.ok THEN FileErr("Io")
                 ELSE LET ss == ReadSegments(bytes, n.pos, n.val, bs.bs.spectrogram_height)
                      IN  IF ~ss.ok THEN FileErr(ss.err)
                          ELSE [tag |-> "Ok", err |-> "",
                                file |-> [build_settings |-> bs.bs, segments |-> ss.segs]]

(***************************************************************************)
(* The codec machine: a File is written to a buffer, the bytes are left    *)
(* alone, cut short or given a changed title byte, and are read back.      *)
(***************************************************************************)

\* Bounds of the files written.
MaxSegments == 2
MaxVectors == 2
MaxHeight == 2

\* Titles: "", "a", "é" (two bytes) and "a€" (one byte, then three).
Titles == << <<>>, <<97>>, <<195, 169>>, <<97, 226, 130, 172>> >>

\* f32 values: 1.0, a NaN, 0.5 and pi (0x40490FDB, four distinct bytes).
F32Samples == << <<63, 128, 0, 0>>, <<127, 192, 0, 0>>, <<63, 0, 0, 0>>, <<64, 73, 15, 219>> >>

\* Two sets of build settings; the second has seven distinct values, the
\* first is the command line's defaults (cli.rs lines 7 to 10, 68 and 71).
SettingsPool(h) ==
    { [fft_size |-> 32768, fft_overlap |-> 8192, spectrogram_height |-> h,
       spectrogram_max_frequency |-> 16384, resample_rate |-> 32768,
       resample_chunk_size |-> 131072, resample_sub_chunks |-> 1],
      [fft_size |-> 1024, fft_overlap |-> 256, spectrogram_height |-> h,
       spectrogram_max_frequency |-> 4000, resample_rate |-> 16000,
       resample_chunk_size |-> 2048, resample_sub_chunks |-> 2] }

\* The value at component k of vector j of segment i: neighbours differ.
SampleAt(seed, i, j, k) == F32Samples[((seed + i + 2 * j + k) % Len(F32Samples)) + 1]

\* A segment of nv vectors of vlen values each.
MakeSegment(title, nv, vlen, seed, i) ==
    [title |-> title,
     vectors |-> [j \in 1..nv |-> [k \in 1..vlen |-> SampleAt(seed, i, j, k)]]]

\* The files the codec machine writes: n segments whose titles and vector
\* counts rotate through Titles and 0..MaxVectors, every vector of vlen
\* values (vlen may differ from spectrogram_height: File's fields are public).
MakeFile(bs, n, vlen, tseed, vseed, seed) ==
    [build_settings |-> bs,
     segments |-> [i \in 1..n |->
        MakeSegment(Titles[((tseed + i) % Len(Titles)) + 1],
                    (vseed + i) % (MaxVectors + 1), vlen, seed, i)]]

Files ==
    { MakeFile(bs, n, vlen, tseed, vseed, seed) :
        bs \in UNION { SettingsPool(h) : h \in 0..MaxHeight },
        n \in 0..MaxSegments, vlen \in 0..MaxHeight,
        tseed \in 0..(Len(Titles) - 1), vseed \in 0..MaxVectors, seed \in 0..1 }

\* Every vector has exactly build_settings.spectrogram_height entries.
ValidFile(f) ==
    \A i \in DOMAIN f.segments : \A j \in DOMAIN f.segments[i].vectors :
        Len(f.segments[i].vectors[j]) = f.build_settings.spectrogram_height

\* Bytes a changed title byte may become: never valid, a stray continuation
\* byte, an ASCII letter.
BadBytes == {255, 128, 98}

\* Number of bytes Segment::write_to emits for a segment.
RECURSIVE SumLen(_)
SumLen(vs) == IF vs = <<>> THEN 0 ELSE Len(Head(vs)) + SumLen(Tail(vs))

EncodedSegmentLen(seg) == 8 + Len(seg.title) + 4 * SumLen(seg.vectors)

\* Offset (bytes before) of segment i in the written file.
RECURSIVE SegmentOffset(_, _)
SegmentOffset(f, i) ==
    IF i = 1 THEN 32
    ELSE SegmentOffset(f, i - 1) + EncodedSegmentLen(f.segments[i - 1])

\* Positions (1-based) of the title bytes of segment i in the written file.
TitlePositions(f, i) ==
    { SegmentOffset(f, i) + 4 + k : k \in 1..Len(f.segments[i].title) }

CodecIdle ==
    /\ file = NoFile
    /\ buffer = <<>>
    /\ damage = [kind |-> "none", seg |-> 0]
    /\ readResult = FileErr("")
    /\ cpc = "idle"

BuildIdle ==
    /\ corpus = <<>>
    /\ bworkers = 0
    /\ btask = <<>>
    /\ bspawned = 0
    /\ bchan = <<>>
    /\ segments = <<>>
    /\ arrived = <<>>
    /\ out_file = <<>>
    /\ bpc = "idle"

SearchIdle ==
    /\ sopt = <<>>
    /\ stask = <<>>
    /\ schan = {}
    /\ strim = 0
    /\ errors = <<>>
    /\ n_results = 0
    /\ top_n = <<>>
    /\ spc = "idle"

SpectIdle ==
    /\ gset = <<>>
    /\ gpos = 0
    /\ gbuffer = <<>>
    /\ gwindows = <<>>
    /\ glog = <<>>
    /\ glast = ""
    /\ gpc = "idle"

AudioIdle ==
    /\ aset = <<>>
    /\ ainner = <<>>
    /\ achunks = <<>>
    /\ aout = <<>>
    /\ alast = ""
    /\ apc = "idle"

HannIdle ==
    /\ hset = <<>>
    /\ hcall = <<>>
    /\ hanns = <<>>
    /\ hreaders = <<>>
    /\ hwriter = <<>>
    /\ hplans = <<>>
    /\ hmade = {}

StreamIdle == SpectIdle /\ AudioIdle /\ HannIdle

InitCodec ==
    /\ file \in Files
    /\ buffer = <<>>
    /\ damage = [kind |-> "none", seg |-> 0]
    /\ readResult = FileErr("")
    /\ cpc = "start"
    /\ BuildIdle
    /\ SearchIdle
    /\ StreamIdle

\* file.write_to(&mut buffer)
Write ==
    /\ cpc = "start"
    /\ buffer' = File_write_to(file)
    /\ cpc' = "written"
    /\ UNCHANGED <<file, damage, readResult, buildVars, searchVars, streamVars>>

\* The input ends early: only the first k bytes reach the reader.
Truncate ==
    /\ cpc = "written"
    /\ damage.kind = "none"
    /\ \E k \in 0..(Len(buffer) - 1) :
        buffer' = SubSeq(buffer, 1, k)
    /\ damage' = [kind |-> "truncated", seg |-> 0]
    /\ UNCHANGED <<file, readResult, cpc, buildVars, searchVars, streamVars>>

\* One title byte of segment i is changed.
Corrupt ==
    /\ cpc = "written"
    /\ damage.kind = "none"
    /\ \E i \in DOMAIN file.segments : \E p \in TitlePositions(file, i) :
        \E b \in BadBytes :
            /\ buffer' = [buffer EXCEPT ![p] = b]
            /\ damage' = [kind |-> "corrupted", seg |-> i]
    /\ UNCHANGED <<file, readResult, cpc, buildVars, searchVars, streamVars>>

\* File::read_from(&mut reader)
Read ==
    /\ cpc = "written"
    /\ readResult' = File_read_from(buffer)
    /\ cpc' = "read"
    /\ UNCHANGED <<file, buffer, damage, buildVars, searchVars, streamVars>>

NextCodec == Write \/ Truncate \/ Corrupt \/ Read

SpecCodec == InitCodec /\ [][NextCodec]_vars

(***************************************************************************)
(* Claims about the codec (SpecCodec).                                     *)
(***************************************************************************)

\* C1: for every File whose vectors all have spectrogram_height entries,
\* reading the bytes that write_to produced returns Ok with an equal File:
\* the same seven settings, the same segments in the same order, each with
\* the same title bytes and the same f32 bit patterns in the same order.
C1_RoundTrip ==
    (cpc = "read" /\ damage.kind = "none" /\ ValidFile(file))
        => (readResult.tag = "Ok" /\ readResult.file = file)

\* A valid file of two segments, one of them titled and with two vectors of
\* two values, has been written and read back.
C1_Witness ==
    /\ cpc = "read"
    /\ damage.kind = "none"
    /\ ValidFile(file)
    /\ readResult.tag = "Ok"
    /\ Len(file.segments) = 2
    /\ \E i \in DOMAIN file.segments :
        /\ Len(file.segments[i].title) > 0
        /\ Len(file.segments[i].vectors) = 2
        /\ Len(file.segments[i].vectors[1]) = 2

\* The bytes of title i as they stand in b, at the place f's layout gives them.
TitleBytesIn(b, f, i) ==
    [k \in 1..Len(f.segments[i].title) |-> b[SegmentOffset(f, i) + 4 + k]]

LeByte(x, k) == (x \div (256 ^ k)) % 256

\* The four bytes of b after offset off are x, little-endian.
WordAt(b, off, x) == \A k \in 0..3 : b[off + 1 + k] = LeByte(x, k)

\* The four bytes of b after offset off are the f32 v, little-endian.
F32At(b, off, v) == \A k \in 0..3 : b[off + 1 + k] = v[4 - k]

\* Segment seg is laid out in b from offset off on.
SegmentLaidOut(b, off, seg) ==
    LET L == Len(seg.title)
    IN  /\ WordAt(b, off, L)
        /\ SubSeq(b, off + 5, off + 4 + L) = seg.title
        /\ WordAt(b, off + 4 + L, Len(seg.vectors))
        /\ \A j \in DOMAIN seg.vectors : \A k \in DOMAIN seg.vectors[j] :
            F32At(b, off + 8 + L + 4 * (SumLen(SubSeq(seg.vectors, 1, j - 1)) + k - 1),
                  seg.vectors[j][k])

\* The index file layout of the format description.
IndexLayout(f, b) ==
    /\ Len(b) = (IF f.segments = <<>> THEN 32
                 ELSE SegmentOffset(f, Len(f.segments))
                        + EncodedSegmentLen(f.segments[Len(f.segments)]))
    /\ WordAt(b, 0, f.build_settings.fft_size)
    /\ WordAt(b, 4, f.build_settings.fft_overlap)
    /\ WordAt(b, 8, f.build_settings.spectrogram_height)
    /\ WordAt(b, 12, f.build_settings.spectrogram_max_frequency)
    /\ WordAt(b, 16, f.build_settings.resample_rate)
    /\ WordAt(b, 20, f.build_settings.resample_chunk_size)
    /\ WordAt(b, 24, f.build_settings.resample_sub_chunks)
    /\ WordAt(b, 28, Len(f.segments))
    /\ \A i \in DOMAIN f.segments :
        SegmentLaidOut(b, SegmentOffset(f, i), f.segments[i])

\* C3: write_to emits the seven settings and the segment count as 4-byte
\* little-endian words, then per segment the title length, the title bytes,
\* the vector count and the values as 4 little-endian bytes each, and
\* nothing else: the first segment starts at offset 32 and the length of the
\* output is exactly that of these fields.
C3_Layout ==
    (cpc \in {"written", "read"} /\ damage.kind = "none")
        => IndexLayout(file, buffer)

\* A file of two segments, one titled and with two vectors of two values,
\* has been written.
C3_Witness ==
    /\ cpc = "written"
    /\ damage.kind = "none"
    /\ Len(file.segments) = 2
    /\ Len(buffer) > 32
    /\ \E i \in DOMAIN file.segments :
        /\ Len(file.segments[i].title) > 1
        /\ Len(file.segments[i].vectors) = 2
        /\ Len(file.segments[i].vectors[2]) = 2

(***************************************************************************)
(* The build driver: pleep-build/src/main.rs.                              *)
(***************************************************************************)

\* Bounds of the corpus and of the pool.
MaxFiles == 3
MaxWorkers == 2

\* The paths a corpus is drawn from: "a", "b", "a" followed by the byte
\* 0xFF, "a" followed by the byte 0xFE (two file names that are not UTF-8)
\* and "é".
PathPool == << <<97>>, <<98>>, <<97, 255>>, <<97, 254>>, <<195, 169>> >>

\* The bytes of s from i on that String::from_utf8_lossy replaces by one
\* U+FFFD: a byte that starts no character, or the well-formed beginning of
\* a character that is cut short.
InvalidLen(s, i) ==
    LET n == Len(s)
        b0 == s[i]
        b1 == IF i + 1 <= n THEN s[i + 1] ELSE 0
        b2 == IF i + 2 <= n THEN s[i + 2] ELSE 0
        need == IF b0 >= 194 /\ b0 <= 223 THEN 2
                ELSE IF b0 >= 224 /\ b0 <= 239 THEN 3
                ELSE IF b0 >= 240 /\ b0 <= 244 THEN 4
                ELSE 1
        second_ok ==
            IF b0 = 224 THEN b1 >= 160 /\ b1 <= 191
            ELSE IF b0 = 237 THEN b1 >= 128 /\ b1 <= 159
            ELSE IF b0 = 240 THEN b1 >= 144 /\ b1 <= 191
            ELSE IF b0 = 244 THEN b1 >= 128 /\ b1 <= 143
            ELSE IsCont(b1)
    IN  IF need = 1 \/ ~second_ok THEN 1
        ELSE IF need = 2 \/ ~IsCont(b2) THEN 2
        ELSE 3

RECURSIVE LossyFrom(_, _)
LossyFrom(s, i) ==
    IF i > Len(s) THEN <<>>
    ELSE LET k == Utf8CharLen(s, i)
         IN  IF k > 0 THEN SubSeq(s, i, i + k - 1) \o LossyFrom(s, i + k)
             ELSE <<239, 191, 189>> \o LossyFrom(s, i + InvalidLen(s, i))

\* file.to_string_lossy().to_string(): the path with every ill-formed part
\* replaced by U+FFFD (EF BF BD)
to_string_lossy(path) == LossyFrom(path, 1)

\* The log spectrogram of a file: one column of one value, set by the
\* file's last byte (different files of PathPool hold different audio).
file_to_log_spectrogram(path) ==
    << << F32Samples[(path[Len(path)] % Len(F32Samples)) + 1] >> >>

\* The Segment a task sends for a file.
SegmentOf(path) ==
    [title |-> to_string_lossy(path), vectors |-> file_to_log_spectrogram(path)]

\* The settings written with the segments: the defaults, at height 1.
BuildOptions ==
    [fft_size |-> 32768, fft_overlap |-> 8192, spectrogram_height |-> 1,
     spectrogram_max_frequency |-> 16384, resample_rate |-> 32768,
     resample_chunk_size |-> 131072, resample_sub_chunks |-> 1]

\* <str as Ord>::lt: byte-wise lexicographic order
RECURSIVE StrLess(_, _)
StrLess(a, b) ==
    IF b = <<>> THEN FALSE
    ELSE IF a = <<>> THEN TRUE
    ELSE IF Head(a) # Head(b) THEN Head(a) < Head(b)
    ELSE StrLess(Tail(a), Tail(b))

\* Mutant of StableInsert: the segment goes before the segments of equal
\* title (a sort that is not stable).
RECURSIVE UnstableInsert(_, _)
UnstableInsert(sorted, seg) ==
    IF sorted = <<>> THEN <<seg>>
    ELSE IF ~StrLess(Head(sorted).title, seg.title) THEN <<seg>> \o sorted
    ELSE <<Head(sorted)>> \o UnstableInsert(Tail(sorted), seg)

\* One insertion of the stable sort: seg goes after every segment whose
\* title is not greater than its own.
RECURSIVE StableInsert(_, _)
StableInsert(sorted, seg) ==
    IF sorted = <<>> THEN <<seg>>
    ELSE IF StrLess(seg.title, Head(sorted).title) THEN <<seg>> \o sorted
    ELSE <<Head(sorted)>> \o StableInsert(Tail(sorted), seg)

\* segments.sort_by_key(|segment| segment.title.clone()): a stable sort
RECURSIVE sort_by_key(_)
sort_by_key(segs) ==
    IF segs = <<>> THEN <<>>
    ELSE StableInsert(sort_by_key(SubSeq(segs, 1, Len(segs) - 1)), segs[Len(segs)])

\* What happens to a file: "ok", its task decodes it and sends a segment;
\* "fail", an expect in file_to_log_spectrogram panics; "ignored", its
\* canonical path is one of the --ignore paths.
Outcomes == {"ok", "fail", "ignored"}

\* The corpora: the paths of PathPool at the indices of a set of at most
\* MaxFiles indices, in index order, each with its outcome.
RECURSIVE CorpusOf(_, _)
CorpusOf(idx, oc) ==
    IF idx = {} THEN <<>>
    ELSE LET i == CHOOSE x \in idx : \A y \in idx : x <= y
         IN  << [path |-> PathPool[i], outcome |-> oc[i]] >> \o CorpusOf(idx \ {i}, oc)

Corpora ==
    { CorpusOf(idx, oc) :
        idx \in { S \in SUBSET (1..Len(PathPool)) : Cardinality(S) <= MaxFiles },
        oc \in [1..Len(PathPool) -> Outcomes] }

Running == { i \in DOMAIN btask : btask[i] = "running" }

InitBuild ==
    /\ corpus \in Corpora
    /\ bworkers \in 1..MaxWorkers
    /\ btask = [i \in DOMAIN corpus |-> "unspawned"]
    /\ bspawned = 0
    /\ bchan = <<>>
    /\ segments = <<>>
    /\ arrived = <<>>
    /\ out_file = <<>>
    /\ bpc = "start"
    /\ CodecIdle
    /\ SearchIdle
    /\ StreamIdle

\* std::fs::File::create(options.out_file).expect(..)
CreateOutFile ==
    /\ bpc = "start"
    /\ \E created \in BOOLEAN :
        bpc' = IF created THEN "spawning" ELSE "panicked_create"
    /\ UNCHANGED <<corpus, bworkers, btask, bspawned, bchan, segments, arrived,
                   out_file, codecVars, searchVars, streamVars>>

\* one turn of the loop in the scope closure: the next file is skipped when
\* it is ignored, else s.spawn queues its task
Spawn ==
    /\ bpc = "spawning"
    /\ bspawned < Len(corpus)
    /\ bspawned' = bspawned + 1
    /\ btask' = [btask EXCEPT ![bspawned + 1] =
                    IF corpus[bspawned + 1].outcome = "ignored"
                    THEN "skipped" ELSE "queued"]
    /\ UNCHANGED <<corpus, bworkers, bchan, segments, arrived, out_file, bpc,
                   codecVars, searchVars, streamVars>>

\* a free worker takes a spawned task
TaskStart(i) ==
    /\ btask[i] = "queued"
    /\ Cardinality(Running) < bworkers
    /\ btask' = [btask EXCEPT ![i] = "running"]
    /\ UNCHANGED <<corpus, bworkers, bspawned, bchan, segments, arrived, out_file,
                   bpc, codecVars, searchVars, streamVars>>

\* the task's closure: file_to_log_spectrogram, which panics on a file it
\* cannot open, probe, decode or resample; else the segment is sent
TaskRun(i) ==
    /\ btask[i] = "running"
    /\ IF corpus[i].outcome = "fail"
       THEN /\ btask' = [btask EXCEPT ![i] = "panicked"]
            /\ bchan' = bchan
       ELSE /\ btask' = [btask EXCEPT ![i] = "sent"]
            /\ bchan' = Append(bchan, SegmentOf(corpus[i].path))
    /\ UNCHANGED <<corpus, bworkers, bspawned, segments, arrived, out_file, bpc,
                   codecVars, searchVars, streamVars>>

\* rayon::scope returns once the closure and every task it spawned have
\* ended, and resumes the panic of a task that panicked
ScopeExit ==
    /\ bpc = "spawning"
    /\ bspawned = Len(corpus)
    /\ \A i \in DOMAIN btask : btask[i] \in {"skipped", "sent", "panicked"}
    /\ bpc' = IF \E i \in DOMAIN btask : btask[i] = "panicked"
              THEN "panicked_task" ELSE "receiving"
    /\ UNCHANGED <<corpus, bworkers, btask, bspawned, bchan, segments, arrived,
                   out_file, codecVars, searchVars, streamVars>>

\* The senders of the channel that are alive: send, moved into the closure
\* of the scope and dropped with it, and the clone held by every spawned
\* task that has not ended.
BuildSenders ==
    (IF bpc \in {"start", "spawning"} THEN 1 ELSE 0)
        + Cardinality({ i \in DOMAIN btask : btask[i] \in {"queued", "running"} })

\* while let Ok(segment) = recv.recv() { segments.push(segment) }
Recv ==
    /\ bpc = "receiving"
    /\ bchan # <<>>
    /\ segments' = Append(segments, Head(bchan))
    /\ arrived' = Append(arrived, Head(bchan))
    /\ bchan' = Tail(bchan)
    /\ UNCHANGED <<corpus, bworkers, btask, bspawned, out_file, bpc, codecVars,
                   searchVars, streamVars>>

\* the channel is empty and every sender is gone: the loop ends, the
\* segments are sorted and the file is written (expect on a write error)
SortAndWrite ==
    /\ bpc = "receiving"
    /\ bchan = <<>>
    /\ BuildSenders = 0
    /\ segments' = sort_by_key(segments)
    /\ \E written \in BOOLEAN :
        IF written
        THEN /\ out_file' = File_write_to([build_settings |-> BuildOptions,
                                           segments |-> segments'])
             /\ bpc' = "written"
        ELSE /\ out_file' = out_file
             /\ bpc' = "panicked_write"
    /\ UNCHANGED <<corpus, bworkers, btask, bspawned, bchan, arrived, codecVars,
                   searchVars, streamVars>>

NextBuild ==
    \/ CreateOutFile
    \/ Spawn
    \/ \E i \in DOMAIN btask : TaskStart(i)
    \/ \E i \in DOMAIN btask : TaskRun(i)
    \/ ScopeExit
    \/ Recv
    \/ SortAndWrite

SpecBuild == InitBuild /\ [][NextBuild]_vars

(***************************************************************************)
(* Claims about the build driver (SpecBuild).                              *)
(***************************************************************************)

\* The code points of a well-formed UTF-8 string.
RECURSIVE CodePointsFrom(_, _)
CodePointsFrom(s, i) ==
    IF i > Len(s) THEN <<>>
    ELSE LET k == Utf8CharLen(s, i)
             cp == IF k = 1 THEN s[i]
                   ELSE IF k = 2 THEN (s[i] - 192) * 64 + (s[i + 1] - 128)
                   ELSE IF k = 3 THEN (s[i] - 224) * 4096 + (s[i + 1] - 128) * 64
                                        + (s[i + 2] - 128)
                   ELSE (s[i] - 240) * 262144 + (s[i + 1] - 128) * 4096
                            + (s[i + 2] - 128) * 64 + (s[i + 3] - 128)
         IN  IF k = 0 THEN <<-1>> ELSE <<cp>> \o CodePointsFrom(s, i + k)

\* a is not after b in the lexicographic order of code points
CodePointLeq(a, b) ==
    LET x == CodePointsFrom(a, 1)
        y == CodePointsFrom(b, 1)
    IN  \/ (Len(x) <= Len(y) /\ \A m \in 1..Len(x) : x[m] = y[m])
        \/ \E k \in 1..Min(Len(x), Len(y)) :
            /\ x[k] < y[k]
            /\ \A m \in 1..(k - 1) : x[m] = y[m]

\* The place of segment x in the sequence s (the segments of a corpus differ
\* pairwise: in their title or in their vectors).
Pos(s, x) == CHOOSE i \in DOMAIN s : s[i] = x

\* The segments of the index file that was written.
WrittenSegments == File_read_from(out_file).file.segments

\* C4: in the index file the build driver writes, the segments are the ones
\* that arrived on the channel, in ascending order of title by code points,
\* and segments of equal title are in their order of arrival.
C4_SortedByTitleStable ==
    bpc = "written" =>
        LET W == WrittenSegments
        IN  /\ File_read_from(out_file).tag = "Ok"
            /\ Len(W) = Len(arrived)
            /\ Range(W) = Range(arrived)
            /\ \A i, j \in DOMAIN W :
                i < j =>
                    /\ CodePointLeq(W[i].title, W[j].title)
                    /\ W[i].title = W[j].title
                        => Pos(arrived, W[i]) < Pos(arrived, W[j])

\* Three segments were written, two of them with the same title, and they
\* had arrived in another order than the one written.
C4_Witness ==
    /\ bpc = "written"
    /\ Len(WrittenSegments) = 3
    /\ WrittenSegments # arrived
    /\ \E i, j \in DOMAIN WrittenSegments :
        i < j /\ WrittenSegments[i].title = WrittenSegments[j].title

\* The segments of the files that are decoded, in the order of the corpus.
RECURSIVE SegmentsInCorpusOrder(_)
SegmentsInCorpusOrder(c) ==
    IF c = <<>> THEN <<>>
    ELSE (IF Head(c).outcome = "ok" THEN <<SegmentOf(Head(c).path)>> ELSE <<>>)
            \o SegmentsInCorpusOrder(Tail(c))

\* C5: the bytes written for a corpus are the same for every number of
\* workers and every interleaving of the tasks and of their sends: they are
\* the bytes of the run in which the tasks send in the order of the corpus.
C5_SameOutputForEveryInterleaving ==
    bpc = "written" =>
        out_file = File_write_to([build_settings |-> BuildOptions,
                                  segments |-> sort_by_key(SegmentsInCorpusOrder(corpus))])

\* C6: a file whose task fails is left out and the build goes on: the build
\* fails as a whole only when the output file cannot be created or written,
\* and the file written holds the segment of every file that was decoded.
C6_FailedFileIsOmitted ==
    /\ bpc # "panicked_task"
    /\ bpc = "written" =>
        Range(WrittenSegments) =
            { SegmentOf(corpus[i].path) : i \in { k \in DOMAIN corpus : corpus[k].outcome = "ok" } }

(***************************************************************************)
(* The search kernel: pleep-search/src/main.rs.                            *)
(*                                                                         *)
(* An f32 that is a spectrogram value is a small integer or NAN.  An error *)
(* (a mean of sums of squares) is counted in units of 1/ErrUnit, so that   *)
(* the mean over a window of 1, 2, 3 or 4 columns is an integer; it is a   *)
(* number of units, INFINITY or NAN.  Segment indices start at 1.          *)
(***************************************************************************)
NAN == -1
INFINITY == 1000000
ErrUnit == 2 * 2 * 3

\* f32::min: the other operand when one is NaN
f32_min(a, b) == IF a = NAN THEN b ELSE IF b = NAN THEN a ELSE Min(a, b)

\* l > r on f32: false when an operand is NaN
f32_gt(l, r) == l # NAN /\ r # NAN /\ l > r

\* f32::is_finite
is_finite(x) == x # NAN /\ x # INFINITY

\* l + r on f32 (sums of the model stay far below f32::MAX)
f32_add(l, r) ==
    IF l = NAN \/ r = NAN THEN NAN
    ELSE IF l = INFINITY \/ r = INFINITY THEN INFINITY
    ELSE l + r

\* (l - r).powi(2)
SqDiff(l, r) == IF l = NAN \/ r = NAN THEN NAN ELSE (l - r) * (l - r)

\* distance_sq: the sum over the zipped values
RECURSIVE distance_sq(_, _)
distance_sq(l1, l2) ==
    IF l1 = <<>> \/ l2 = <<>> THEN 0
    ELSE f32_add(SqDiff(Head(l1), Head(l2)), distance_sq(Tail(l1), Tail(l2)))

\* sum / len, in units of 1/ErrUnit
f32_mean(sum, len) ==
    IF sum = NAN THEN NAN
    ELSE IF sum = INFINITY THEN INFINITY
    ELSE (sum * ErrUnit) \div len

CeilDiv(a, b) == (a + b - 1) \div b

\* rubato::FftFixedIn::new: refused when a rate is 0
ResamplerConstructs(bs, sample_rate) == sample_rate > 0 /\ bs.resample_rate > 0

\* The number of samples resample.flatten() yields for a slice of n samples:
\* ResamplingChunksIterator makes ceil(n / chunk_size) chunks (the last one
\* zero-padded) and the resampler turns a chunk of chunk_size samples into
\* chunk_size * resample_rate / sample_rate samples.
ResampledLen(bs, sample_rate, n) ==
    CeilDiv(n, bs.resample_chunk_size)
        * ((bs.resample_chunk_size * bs.resample_rate) \div sample_rate)

\* The number of columns of the spectrogram of m samples: SpectrogramIterator
\* takes fft_len samples per column and zero-pads the last one.
SpectrogramLen(bs, m) == CeilDiv(m, bs.fft_size)

\* The values of the query's log spectrogram are those of an opaque
\* transform (resampler, FFT, log re-binning) of the slice: column j of the
\* slice at the given offset holds this value.
QueryValues == <<0, 1, 2>>

QueryColumn(o, offset, j) == << QueryValues[((offset + j) % Len(QueryValues)) + 1] >>

\* generate_log_spectrogram(resample.flatten()..).collect::<VecDeque<_>>()
QuerySpectrogram(o, offset) ==
    LET n == o.nsamples - offset
        cols == SpectrogramLen(o.bs, ResampledLen(o.bs, o.sample_rate, n))
    IN  [j \in 1..cols |-> QueryColumn(o, offset, j)]

\* the padding loop: spectrogram_padding zero columns at each end
Padded(spectrogram, spectrogram_padding) ==
    LET empty_vec == [x \in 1..Len(spectrogram[1]) |-> 0]
        pad == [x \in 1..spectrogram_padding |-> empty_vec]
    IN  pad \o spectrogram \o pad

\* spectrogram.windows(size) for size >= 1: every run of size consecutive
\* columns, none when the spectrogram has fewer (size = 0 panics)
windows(spectrogram, size) ==
    [w \in 1..(Len(spectrogram) - size + 1) |-> SubSeq(spectrogram, w, w + size - 1)]

\* the error of one window: the sum over the zipped columns, divided by the
\* length of the window
WindowError(spectrogram_window, segment) ==
    LET n == Min(Len(spectrogram_window), Len(segment))
        SumFrom[c \in 1..(n + 1)] ==
            IF c > n THEN 0
            ELSE f32_add(distance_sq(spectrogram_window[c], segment[c]), SumFrom[c + 1])
    IN  f32_mean(SumFrom[1], Len(spectrogram_window))

\* the loop over spectrogram.windows(segment.len()): min_error
MinWindowError(spectrogram, segment) ==
    LET ws == windows(spectrogram, Len(segment))
        MinFrom[w \in 1..(Len(ws) + 1)] ==
            IF w > Len(ws) THEN INFINITY
            ELSE f32_min(MinFrom[w + 1], WindowError(ws[w], segment))
    IN  MinFrom[1]

\* Mutant of Dropped: no minimum is dropped.
DroppedNever(min_error, max_error) == FALSE

\* if min_error > options.max_error { continue; }
Dropped(min_error, max_error) == f32_gt(min_error, max_error)

\* the two filters of get_error: the indices of the segments that are scored
FilteredSegments(spectrogram, trimmed, skip_less_than) ==
    { i \in DOMAIN trimmed :
        Len(trimmed[i]) <= Len(spectrogram) /\ Len(trimmed[i]) >= skip_less_than }

NoScores == [i \in {} |-> 0]

\* get_error: the scores of one task, or a panic (the unwrap on the
\* resampler, spectrogram[0] of an empty spectrogram, windows(0))
get_error(o, offset, trimmed) ==
    IF ~ResamplerConstructs(o.bs, o.sample_rate)
    THEN [panic |-> TRUE, scores |-> NoScores]
    ELSE LET raw == QuerySpectrogram(o, offset)
         IN  IF raw = <<>> THEN [panic |-> TRUE, scores |-> NoScores]
             ELSE LET spectrogram == Padded(raw, o.spectrogram_padding)
                      filtered == FilteredSegments(spectrogram, trimmed, o.min_vectors)
                  IN  IF \E i \in filtered : Len(trimmed[i]) = 0
                      THEN [panic |-> TRUE, scores |-> NoScores]
                      ELSE [panic |-> FALSE,
                            scores |->
                                [i \in { x \in filtered :
                                            ~Dropped(MinWindowError(spectrogram, trimmed[x]),
                                                     o.max_error) }
                                    |-> MinWindowError(spectrogram, trimmed[i])]]

\* (0..=segment_trim_size).step_by(segment_trim_step): the number of trim sets
NumTrims(o) ==
    IF o.segment_trim_step = 0 THEN 0
    ELSE (o.segment_trim_size \div o.segment_trim_step) + 1

\* remove_pre of trim set ti (1-based)
RemovePre(o, ti) == (ti - 1) * o.segment_trim_step

\* Mutant of Trimmed: a segment trimmed to nothing is left out of the set.
TrimmedWithoutEmpty(o, ti) ==
    SelectSeq([i \in DOMAIN o.segs |->
                  SubSeq(o.segs[i], Min(RemovePre(o, ti), Len(o.segs[i])) + 1,
                         Len(o.segs[i]))],
              LAMBDA segment : segment # <<>>)

\* trim set ti: every segment without its first min(remove_pre, len) vectors
Trimmed(o, ti) ==
    [i \in DOMAIN o.segs |->
        SubSeq(o.segs[i], Min(RemovePre(o, ti), Len(o.segs[i])) + 1, Len(o.segs[i]))]

\* the offset of slice index: two integer divisions
Offset(o, index) ==
    ((index * o.sample_rate * o.bs.fft_size) \div o.bs.resample_rate) \div o.extra_offsets

\* The tasks: one per trim set and slice index.
Tasks(o) == { <<ti, k>> : ti \in 1..NumTrims(o), k \in 0..o.extra_offsets }

\* what the task <<ti, k>> computes
TaskResult(o, t) == get_error(o, Offset(o, t[2]), Trimmed(o, t[1]))

\* Mutant of MergeScores: the value received last replaces the one held.
MergeScoresLastWins(errs, offset_errors) ==
    [i \in DOMAIN errs |->
        IF i \in DOMAIN offset_errors THEN offset_errors[i] ELSE errs[i]]

\* for (index, mse) in offset_errors { errors[index] = errors[index].min(mse) }
MergeScores(errs, offset_errors) ==
    [i \in DOMAIN errs |->
        IF i \in DOMAIN offset_errors THEN f32_min(errs[i], offset_errors[i]) ELSE errs[i]]

\* l.partial_cmp(r).unwrap_or(Ordering::Less) == Ordering::Greater
CmpGreater(l, r) == l # NAN /\ r # NAN /\ l > r

\* Mutant of RankInsert: the order is descending.
RECURSIVE RankInsertDescending(_, _)
RankInsertDescending(sorted, e) ==
    IF sorted = <<>> THEN <<e>>
    ELSE IF CmpGreater(e.mse, Head(sorted).mse) THEN <<e>> \o sorted
    ELSE <<Head(sorted)>> \o RankInsertDescending(Tail(sorted), e)

\* One insertion of the stable sort of best: e goes after every entry that
\* does not compare greater than it.
RECURSIVE RankInsert(_, _)
RankInsert(sorted, e) ==
    IF sorted = <<>> THEN <<e>>
    ELSE IF CmpGreater(Head(sorted).mse, e.mse) THEN <<e>> \o sorted
    ELSE <<Head(sorted)>> \o RankInsert(Tail(sorted), e)

\* best.sort_by(..): a stable sort
RECURSIVE sort_by(_)
sort_by(best) ==
    IF best = <<>> THEN <<>>
    ELSE RankInsert(sort_by(SubSeq(best, 1, Len(best) - 1)), best[Len(best)])

\* errors.into_iter().enumerate().filter(|(_, mse)| mse.is_finite())
RECURSIVE FiniteFrom(_, _)
FiniteFrom(errs, i) ==
    IF i > Len(errs) THEN <<>>
    ELSE (IF is_finite(errs[i]) THEN << [segment_index |-> i, mse |-> errs[i]] >> ELSE <<>>)
            \o FiniteFrom(errs, i + 1)

\* best.into_iter().take(n)
Take(best, n) == SubSeq(best, 1, Min(n, Len(best)))

(***************************************************************************)
(* The search as a state machine.  The index file and the decoded query    *)
(* are read before the first step; the options are those of the command    *)
(* line.  n_results is read by the last step only and is drawn there.      *)
(***************************************************************************)
MaxIndexSegments == 2
MaxSegmentLen == 3
MaxSamples == 4
MaxResults == 2

SegmentValues == <<0, 1, 2, 3, 0, NAN>>

\* segment i of an index file: its length and its values follow a pattern
IndexSegment(len1, seed, i) ==
    [j \in 1..((len1 + (i - 1) * seed) % (MaxSegmentLen + 1)) |->
        << SegmentValues[((seed * i + j) % Len(SegmentValues)) + 1] >>]

IndexFiles ==
    { [i \in 1..n |-> IndexSegment(len1, seed, i)] :
        n \in 0..MaxIndexSegments, len1 \in 0..MaxSegmentLen, seed \in 0..1 }

\* the build settings of the index file that the search reads
SearchBuildSettings ==
    [fft_size |-> 2, resample_rate |-> 1, resample_chunk_size |-> 2]

MaxErrorValues == {ErrUnit \div 2, 2 * ErrUnit, NAN}

\* (segment_trim_size, segment_trim_step)
TrimOptions == { <<0, 1>>, <<1, 1>>, <<1, 0>> }

SearchInputs ==
    { [bs |-> SearchBuildSettings, segs |-> segs, nsamples |-> n, sample_rate |-> 1,
       titles |-> [i \in 1..Len(segs) |-> <<96 + i>>], max_error |-> me, extra_offsets |-> eo,
       segment_trim_size |-> tr[1], segment_trim_step |-> tr[2],
       min_vectors |-> mv, spectrogram_padding |-> pad] :
        segs \in IndexFiles, n \in 0..MaxSamples, me \in MaxErrorValues,
        eo \in 0..2, tr \in TrimOptions, mv \in 0..1, pad \in 0..1 }

InitSearch ==
    /\ CodecIdle
    /\ BuildIdle
    /\ StreamIdle
    /\ sopt \in SearchInputs
    /\ stask = [t \in Tasks(sopt) |-> [state |-> "unspawned", scores |-> NoScores]]
    /\ schan = {}
    /\ strim = 0
    /\ errors = [i \in 1..Len(sopt.segs) |-> INFINITY]
    /\ n_results = 0
    /\ top_n = <<>>
    /\ spc = "start"

\* the loop that builds trimmed_segments: step_by(0) panics
BuildTrims ==
    /\ spc = "start"
    /\ spc' = IF sopt.segment_trim_step = 0 THEN "panicked" ELSE "spawning"
    /\ UNCHANGED <<sopt, stask, schan, strim, errors, n_results, top_n>>
    /\ UNCHANGED <<codecVars, buildVars, streamVars>>

\* One pass of the loop of the scope's closure: the slices of the query are
\* taken (a division by extra_offsets, a slice from offset), then one task is
\* spawned per slice.  A panic here unwinds the closure; the scope still
\* waits for the tasks spawned before.
SpawnTrimSet ==
    /\ spc = "spawning"
    /\ strim < NumTrims(sopt)
    /\ IF sopt.extra_offsets = 0
          \/ \E k \in 0..sopt.extra_offsets : Offset(sopt, k) > sopt.nsamples
       THEN /\ spc' = "unwinding"
            /\ UNCHANGED <<stask, strim>>
       ELSE /\ stask' = [t \in DOMAIN stask |->
                            IF t[1] = strim + 1
                            THEN [state |-> "queued", scores |-> NoScores]
                            ELSE stask[t]]
            /\ strim' = strim + 1
            /\ spc' = spc
    /\ UNCHANGED <<sopt, schan, errors, n_results, top_n>>
    /\ UNCHANGED <<codecVars, buildVars, streamVars>>

\* a spawned task: get_error, then send
SearchTaskRun(t) ==
    /\ stask[t].state = "queued"
    /\ LET r == TaskResult(sopt, t)
       IN  IF r.panic
           THEN /\ stask' = [stask EXCEPT ![t] = [state |-> "panicked", scores |-> NoScores]]
                /\ schan' = schan
           ELSE /\ stask' = [stask EXCEPT ![t] = [state |-> "sent", scores |-> r.scores]]
                /\ schan' = schan \cup {t}
    /\ UNCHANGED <<sopt, strim, errors, n_results, top_n, spc>>
    /\ UNCHANGED <<codecVars, buildVars, streamVars>>

\* the scope returns when its closure and every spawned task have ended, and
\* resumes a panic of any of them
SearchScopeExit ==
    /\ \/ spc = "unwinding"
       \/ spc = "spawning" /\ strim = NumTrims(sopt)
    /\ \A t \in DOMAIN stask : stask[t].state # "queued"
    /\ spc' = IF spc = "unwinding" \/ \E t \in DOMAIN stask : stask[t].state = "panicked"
              THEN "panicked" ELSE "merging"
    /\ UNCHANGED <<sopt, stask, schan, strim, errors, n_results, top_n>>
    /\ UNCHANGED <<codecVars, buildVars, streamVars>>

\* Mutant of SearchSenders: send is not dropped after the scope.
SearchSendersWithoutDrop ==
    1 + Cardinality({ t \in DOMAIN stask : stask[t].state = "queued" })

\* The senders of the channel that are alive: send, dropped after the
\* scope, and the clone held by every spawned task that has not ended.
SearchSenders ==
    (IF spc \in {"start", "spawning", "unwinding"} THEN 1 ELSE 0)
        + Cardinality({ t \in DOMAIN stask : stask[t].state = "queued" })

\* one turn of the receive loop: the tasks sent in any order
Merge ==
    /\ spc = "merging"
    /\ \E t \in schan :
        /\ errors' = MergeScores(errors, stask[t].scores)
        /\ schan' = schan \ {t}
    /\ UNCHANGED <<sopt, stask, strim, n_results, top_n, spc>>
    /\ UNCHANGED <<codecVars, buildVars, streamVars>>

\* the channel is empty and every sender is dropped: filter, sort, take
Finish ==
    /\ spc = "merging"
    /\ schan = {}
    /\ SearchSenders = 0
    /\ \E n \in 0..MaxResults :
        /\ n_results' = n
        /\ top_n' = Take(sort_by(FiniteFrom(errors, 1)), n)
    /\ spc' = "done"
    /\ UNCHANGED <<sopt, stask, schan, strim, errors>>
    /\ UNCHANGED <<codecVars, buildVars, streamVars>>

NextSearch ==
    \/ BuildTrims
    \/ SpawnTrimSet
    \/ \E t \in DOMAIN stask : SearchTaskRun(t)
    \/ SearchScopeExit
    \/ Merge
    \/ Finish

SpecSearch == InitSearch /\ [][NextSearch]_vars

\* matches of CommandOutput: the title of the segment at each reported index
CommandOutput ==
    [p \in 1..Len(top_n) |->
        [title |-> sopt.titles[top_n[p].segment_index], score |-> top_n[p].mse]]

\* The two programs that collect the results of their tasks over a channel.
InitDrivers == InitBuild \/ InitSearch

NextDrivers == NextBuild \/ NextSearch

SpecDrivers == InitDrivers /\ [][NextDrivers]_vars

(***************************************************************************)
(* Claims about the search.                                                *)
(***************************************************************************)
\* the tasks whose result map was sent
SentTasks == { t \in DOMAIN stask : stask[t].state = "sent" }

\* the errors recorded for segment index i over all tasks
Recorded(i) == { stask[t].scores[i] : t \in { u \in SentTasks : i \in DOMAIN stask[u].scores } }

SetMin(S) == CHOOSE x \in S : \A y \in S : x <= y

MergedError(i) == IF Recorded(i) = {} THEN INFINITY ELSE SetMin(Recorded(i))

Listed == { top_n[p].segment_index : p \in 1..Len(top_n) }

\* C7: the result list has at most n_results entries, in ascending order of
\* mse; the mse of a listed segment is the minimum of the errors recorded
\* for its index over all tasks; a segment is listed only if some task
\* recorded an error for it; no omitted segment has a smaller merged error
\* than a listed one.
C7_ResultList ==
    spc = "done" =>
        /\ Len(top_n) <= n_results
        /\ \A p, q \in 1..Len(top_n) :
              p < q => /\ top_n[p].mse <= top_n[q].mse
                       /\ top_n[p].segment_index # top_n[q].segment_index
        /\ \A p \in 1..Len(top_n) :
              /\ top_n[p].segment_index \in 1..Len(sopt.segs)
              /\ Recorded(top_n[p].segment_index) # {}
              /\ top_n[p].mse = SetMin(Recorded(top_n[p].segment_index))
        /\ \A i \in (1..Len(sopt.segs)) \ Listed :
              \A p \in 1..Len(top_n) : ~(MergedError(i) < top_n[p].mse)

\* C7 witness: a full list of one entry, whose error is the smaller of two
\* recorded values, and a segment left out whose merged error is finite and
\* greater.
C7_Witness ==
    /\ spc = "done"
    /\ n_results = 1
    /\ Len(top_n) = 1
    /\ Cardinality(Recorded(top_n[1].segment_index)) >= 2
    /\ \E i \in (1..Len(sopt.segs)) \ Listed :
          is_finite(MergedError(i)) /\ MergedError(i) > top_n[1].mse

\* l <= r on f32: false when an operand is NaN
f32_le(l, r) == l # NAN /\ r # NAN /\ l <= r

\* the tasks whose result map the receive loop has merged
MergedTasks == IF spc \in {"merging", "done"} THEN SentTasks \ schan ELSE {}

\* the merge never raises a value: errors[i] is at most every merged record
MergeNeverRaises ==
    \A t \in MergedTasks : \A i \in DOMAIN stask[t].scores :
        ~f32_gt(errors[i], stask[t].scores[i])

\* C8 as stated: a task records (segment_index, min_error) only when
\* min_error is at most max_error, the merge never raises a recorded value,
\* and so no reported mse is greater than max_error.
C8_RecordsOnlyAtMostMaxError ==
    /\ \A t \in SentTasks : \A i \in DOMAIN stask[t].scores :
          f32_le(stask[t].scores[i], sopt.max_error)
    /\ MergeNeverRaises
    /\ \A p \in 1..Len(top_n) : ~f32_gt(top_n[p].mse, sopt.max_error)

\* C8 amended: a task records (segment_index, min_error) unless min_error
\* compares greater than max_error (no minimum does when max_error is NaN),
\* the merge never raises a recorded value, and no reported mse is greater
\* than max_error.
C8_NoMatchAboveMaxError ==
    /\ \A t \in SentTasks : \A i \in DOMAIN stask[t].scores :
          ~f32_gt(stask[t].scores[i], sopt.max_error)
    /\ MergeNeverRaises
    /\ \A p \in 1..Len(top_n) : ~f32_gt(top_n[p].mse, sopt.max_error)

\* the segments a task scored: the filtered segments of its slice and trim set
ScoredBy(t) ==
    FilteredSegments(Padded(QuerySpectrogram(sopt, Offset(sopt, t[2])),
                            sopt.spectrogram_padding),
                     Trimmed(sopt, t[1]), sopt.min_vectors)

\* C8 witness: a search that reports a match, with a max_error that is a
\* number, in which a task dropped a segment it had scored and another
\* task's larger record for a reported segment was merged.
C8_Witness ==
    /\ spc = "done"
    /\ top_n # <<>>
    /\ sopt.max_error # NAN
    /\ \E t \in SentTasks : \E i \in ScoredBy(t) : i \notin DOMAIN stask[t].scores
    /\ \E p \in 1..Len(top_n) : \E v \in Recorded(top_n[p].segment_index) : v > top_n[p].mse

\* The ranking as a function of the inputs alone: the merged error of a
\* segment is the least error any task computes for it, the segments with
\* a finite merged error are ranked by (error, index), and the first
\* n_results ranks are reported.
ExpectedError(i) ==
    LET vals == { TaskResult(sopt, t).scores[i] :
                    t \in { u \in Tasks(sopt) : i \in DOMAIN TaskResult(sopt, u).scores } }
    IN  IF vals = {} THEN INFINITY ELSE SetMin(vals)

ExpectedRanking ==
    LET finite == { i \in 1..Len(sopt.segs) : is_finite(ExpectedError(i)) }
        Rank(i) == 1 + Cardinality({ j \in finite :
                          \/ ExpectedError(j) < ExpectedError(i)
                          \/ ExpectedError(j) = ExpectedError(i) /\ j < i })
    IN  [p \in 1..Min(n_results, Cardinality(finite)) |->
            LET i == CHOOSE x \in finite : Rank(x) = p
            IN  [segment_index |-> i, mse |-> ExpectedError(i)]]

\* C9: the final ranking (which segments, in which order, with which mse)
\* is the same for every order in which the result maps arrive, also when
\* two segments end with equal merged error: it is the ranking fixed by the
\* inputs.
C9_RankingIndependentOfArrival == spc = "done" => top_n = ExpectedRanking

\* C9 witness: two reported segments with equal merged error, one of them
\* with different errors recorded by different tasks.
C9_Witness ==
    /\ spc = "done"
    /\ Len(top_n) >= 2
    /\ top_n[1].mse = top_n[2].mse
    /\ \E p \in 1..Len(top_n) : Cardinality(Recorded(top_n[p].segment_index)) >= 2

\* the query, as a spectrogram, has fewer columns than every segment
QueryShorterThanSegments ==
    /\ sopt.segs # <<>>
    /\ \A i \in 1..Len(sopt.segs) : Len(QuerySpectrogram(sopt, 0)) < Len(sopt.segs[i])

\* C10: for a query shorter than the smallest segment (also one of fewer
\* samples than an FFT frame, also an empty slice), with extra_offsets and
\* segment_trim_step positive, the search does not fail and its result is
\* empty.
C10_ShortQueryGivesEmptyResult ==
    (/\ QueryShorterThanSegments
     /\ sopt.extra_offsets > 0
     /\ sopt.segment_trim_step > 0)
        => /\ spc # "panicked"
           /\ spc = "done" => top_n = <<>>

\* the padded query spectrogram of task t
TaskSpectrogram(t) ==
    Padded(QuerySpectrogram(sopt, Offset(sopt, t[2])), sopt.spectrogram_padding)

\* C11: in get_error, for every min_vectors >= 0 and every trimmed segment
\* (also one trimmed to zero vectors), a segment is scored if and only if
\* min_vectors <= its length <= the length of the padded query spectrogram,
\* and every window compared against a scored segment has exactly as many
\* columns as the segment, never none: a task whose query spectrogram has a
\* column ends with its map sent, the map holds no segment out of the range,
\* and every segment in the range has windows of its own positive length.
C11_ScoredIffLengthInRange ==
    \A t \in DOMAIN stask :
        (/\ stask[t].state \in {"sent", "panicked"}
         /\ QuerySpectrogram(sopt, Offset(sopt, t[2])) # <<>>)
            => /\ stask[t].state = "sent"
               /\ \A i \in 1..Len(sopt.segs) :
                    LET segment == Trimmed(sopt, t[1])[i]
                        in_range == /\ sopt.min_vectors <= Len(segment)
                                    /\ Len(segment) <= Len(TaskSpectrogram(t))
                        ws == windows(TaskSpectrogram(t), Len(segment))
                    IN  /\ i \in DOMAIN stask[t].scores => in_range
                        /\ in_range =>
                            /\ Len(segment) >= 1
                            /\ ws # <<>>
                            /\ \A w \in 1..Len(ws) : Len(ws[w]) = Len(segment)
                            /\ \/ i \in DOMAIN stask[t].scores
                               \/ Dropped(MinWindowError(TaskSpectrogram(t), segment),
                                          sopt.max_error)

(***************************************************************************)
(* The spectrogram stage: pleep/src/spectrogram.rs and the log re-binner   *)
(* of pleep-build/src/lib.rs.                                              *)
(*                                                                         *)
(* The inner stream is a finite stream of n samples that stays ended;      *)
(* sample i of it is the number i, a zero used as padding is 0.            *)
(***************************************************************************)
RECURSIVE Pow(_, _)
Pow(b, e) == IF e = 0 THEN 1 ELSE b * Pow(b, e - 1)

RECURSIVE SumSeq(_)
SumSeq(q) == IF q = <<>> THEN 0 ELSE Head(q) + SumSeq(Tail(q))

\* get_bin_for_frequency(..) as usize
get_bin_for_frequency(frequency, sample_rate, fft_len) ==
    (frequency * fft_len) \div sample_rate

\* ((a.powf(index / out_height) - 1.0) / (a - 1.0) * len) as usize with
\* a = 10: the largest k with 1 + 9k/len <= 10^(index/out_height), that is
\* with (len + 9k)^out_height <= 10^index * len^out_height
LogIndex(index, out_height, len) ==
    CHOOSE k \in 0..len :
        /\ Pow(len + 9 * k, out_height) <= Pow(10, index) * Pow(len, out_height)
        /\ \A k2 \in (k + 1)..len :
              Pow(len + 9 * k2, out_height) > Pow(10, index) * Pow(len, out_height)

SeqMax(q) == CHOOSE x \in Range(q) : \A y \in Range(q) : y <= x

\* make_log: new[index] is the maximum of values[last_index..next_index];
\* the unwrap panics when that range is empty
make_log(values, out_height) ==
    IF \E index \in 1..out_height :
          LogIndex(index - 1, out_height, Len(values))
              = LogIndex(index, out_height, Len(values))
    THEN [panic |-> TRUE, new |-> <<>>]
    ELSE [panic |-> FALSE,
          new |-> [index \in 1..out_height |->
                      SeqMax(SubSeq(values,
                                    LogIndex(index - 1, out_height, Len(values)) + 1,
                                    LogIndex(index, out_height, Len(values))))]]

\* Mutant of resize: the buffer is filled up with its last sample.
resize_repeat_last(q, new_len, value) ==
    [k \in 1..new_len |-> IF k <= Len(q) THEN q[k] ELSE q[Len(q)]]

\* VecDeque::resize / Vec::resize
resize(q, new_len, value) ==
    [k \in 1..new_len |-> IF k <= Len(q) THEN q[k] ELSE value]

\* generate_spectrogram_col: fft_len / 2 magnitudes.  The windowed FFT is
\* not computed; bin b of a window holds this function of the window.
generate_spectrogram_col(samples, fft_len) ==
    [b \in 1..(fft_len \div 2) |-> (SumSeq(samples) + b) % 5]

\* Mutant of FillBuffer: the loop is left when the buffer holds more than
\* fft_len samples.
RECURSIVE FillBufferStrict(_, _, _, _)
FillBufferStrict(n, fft_len, pos, buf) ==
    IF pos < n
    THEN IF Len(buf) + 1 > fft_len
         THEN [none |-> FALSE, pos |-> pos + 1, buffer |-> Append(buf, pos + 1)]
         ELSE FillBufferStrict(n, fft_len, pos + 1, Append(buf, pos + 1))
    ELSE IF buf = <<>>
         THEN [none |-> TRUE, pos |-> pos, buffer |-> buf]
         ELSE [none |-> FALSE, pos |-> pos, buffer |-> resize(buf, fft_len, 0)]

\* the loop of SpectrogramIterator::next: samples are taken until the buffer
\* holds fft_len of them, or the inner stream has ended
RECURSIVE FillBuffer(_, _, _, _)
FillBuffer(n, fft_len, pos, buf) ==
    IF pos < n
    THEN IF Len(buf) + 1 >= fft_len
         THEN [none |-> FALSE, pos |-> pos + 1, buffer |-> Append(buf, pos + 1)]
         ELSE FillBuffer(n, fft_len, pos + 1, Append(buf, pos + 1))
    ELSE IF buf = <<>>
         THEN [none |-> TRUE, pos |-> pos, buffer |-> buf]
         ELSE [none |-> FALSE, pos |-> pos, buffer |-> resize(buf, fft_len, 0)]

\* self.buffer.drain(..self.settings.fft_len)
drain(buf, fft_len) == SubSeq(buf, fft_len + 1, Len(buf))

\* SpectrogramIterator::next on the iterator state (pos, buf)
SpectrogramIterator_next(g, pos, buf) ==
    LET filled == FillBuffer(g.n, g.fft_len, pos, buf)
    IN  IF filled.none
        THEN [kind |-> "None", pos |-> filled.pos, buffer |-> filled.buffer,
              samples |-> <<>>, col |-> <<>>]
        ELSE IF Len(filled.buffer) > g.fft_len
        THEN [kind |-> "panic", pos |-> filled.pos, buffer |-> filled.buffer,
              samples |-> <<>>, col |-> <<>>]
        ELSE LET samples == SubSeq(filled.buffer, 1, Min(g.fft_len, Len(filled.buffer)))
             IN  [kind |-> "Some", pos |-> filled.pos,
                  buffer |-> drain(filled.buffer, g.fft_len),
                  samples |-> samples,
                  col |-> generate_spectrogram_col(samples, g.fft_len)]

MaxFftLen == 6
MaxLogHeight == 3
MaxStream == 7

\* (resample_rate, spectrogram_max_frequency): the frequency is positive and
\* at most half the rate
RateOptions == { <<2, 1>>, <<4, 1>>, <<4, 2>> }

\* settings that satisfy the stated invariants, and the length of the stream
SpectrogramInputs ==
    { [fft_len |-> f, fft_overlap |-> ov, height |-> h, resample_rate |-> r[1],
       max_frequency |-> r[2], n |-> n] :
        f \in 1..MaxFftLen, ov \in 0..(MaxFftLen - 1), h \in 1..MaxLogHeight,
        r \in RateOptions, n \in 0..MaxStream }

InitSpectrogram ==
    /\ CodecIdle
    /\ BuildIdle
    /\ SearchIdle
    /\ AudioIdle
    /\ HannIdle
    /\ gset \in { g \in SpectrogramInputs : g.fft_overlap < g.fft_len }
    /\ gpos = 0
    /\ gbuffer = <<>>
    /\ gwindows = <<>>
    /\ glog = <<>>
    /\ glast = ""
    /\ gpc = "running"

\* the cutoff_bin that generate_log_spectrogram gives the iterator
cutoff_bin(g) == get_bin_for_frequency(g.max_frequency, g.resample_rate, g.fft_len)

\* One call of LogSpectrogramIterator::next by the consumer: the inner
\* SpectrogramIterator::next, then resize to cutoff_bin and make_log.
LogSpectrogramIterator_next ==
    /\ gpc = "running"
    /\ LET r == SpectrogramIterator_next(gset, gpos, gbuffer)
           logged == make_log(resize(r.col, cutoff_bin(gset), 0), gset.height)
       IN  /\ gpos' = r.pos
           /\ gbuffer' = r.buffer
           /\ gwindows' = IF r.kind = "Some" THEN Append(gwindows, r.samples) ELSE gwindows
           /\ glast' = IF r.kind = "Some" /\ logged.panic THEN "panic" ELSE r.kind
           /\ glog' = IF r.kind = "Some" /\ ~logged.panic
                      THEN Append(glog, logged.new) ELSE glog
           /\ gpc' = IF r.kind = "None" THEN "ended"
                     ELSE IF r.kind = "panic" \/ logged.panic THEN "panicked"
                     ELSE "running"
    /\ UNCHANGED <<gset, codecVars, buildVars, searchVars, audioVars, hannVars>>

\* a call of next after the one that returned None
PollAfterNone ==
    /\ gpc = "ended"
    /\ LET r == SpectrogramIterator_next(gset, gpos, gbuffer)
       IN  /\ gpos' = r.pos
           /\ gbuffer' = r.buffer
           /\ gwindows' = IF r.kind = "Some" THEN Append(gwindows, r.samples) ELSE gwindows
           /\ glast' = r.kind
    /\ gpc' = "polled"
    /\ UNCHANGED <<gset, glog, codecVars, buildVars, searchVars, audioVars, hannVars>>

NextSpectrogram == LogSpectrogramIterator_next \/ PollAfterNone

SpecSpectrogram == InitSpectrogram /\ [][NextSpectrogram]_vars

(***************************************************************************)
(* Claims about the spectrogram stage.                                     *)
(***************************************************************************)
\* C12: for settings that satisfy the invariants and a non-empty stream,
\* the log re-binner emits one column per spectrogram column, each of
\* exactly spectrogram_height values, and does not fail, also when two
\* successive log-mapped source indices coincide (here: with at least as
\* many source bins as output values).
C12_LogColumnPerSpectrogramColumn ==
    (gpc # "idle" /\ gset.n >= 1 /\ cutoff_bin(gset) >= gset.height)
        => /\ gpc # "panicked"
           /\ Len(glog) = Len(gwindows)
           /\ \A j \in 1..Len(glog) : Len(glog[j]) = gset.height

\* C13: after a column is emitted the buffer keeps the last fft_overlap
\* samples of it, and the first fft_overlap samples of column j+1 are the
\* last fft_overlap samples of column j.
C13_HopIsFftLenMinusOverlap ==
    (gpc # "idle" /\ glast \in {"Some", "panic"})
        => /\ gbuffer = SubSeq(gwindows[Len(gwindows)],
                               gset.fft_len - gset.fft_overlap + 1, gset.fft_len)
           /\ \A j \in 1..(Len(gwindows) - 1) :
                SubSeq(gwindows[j + 1], 1, gset.fft_overlap)
                    = SubSeq(gwindows[j], gset.fft_len - gset.fft_overlap + 1, gset.fft_len)

\* the columns of a stream of n samples: consecutive runs of fft_len samples,
\* the last one filled up with zeros
ExpectedWindows(n, fft_len) ==
    [j \in 1..CeilDiv(n, fft_len) |->
        [k \in 1..fft_len |->
            IF (j - 1) * fft_len + k <= n THEN (j - 1) * fft_len + k ELSE 0]]

\* C15: for a stream of n samples and fft_len >= 1 the iterator emits its
\* columns and then returns None: samples left in the buffer when the
\* stream ends are zero-padded to fft_len and emitted as the last column,
\* the call after it returns None, and with an empty buffer at the end of
\* the stream (so for n = 0) no column is emitted.
C15_EndOfStream ==
    gpc # "idle" =>
        /\ Len(gwindows) <= CeilDiv(gset.n, gset.fft_len)
        /\ gwindows = SubSeq(ExpectedWindows(gset.n, gset.fft_len), 1, Len(gwindows))
        /\ glast \in {"Some", "panic"} => gbuffer = <<>>
        /\ Len(gwindows) = CeilDiv(gset.n, gset.fft_len) /\ gpc = "running"
              => SpectrogramIterator_next(gset, gpos, gbuffer).kind = "None"
        /\ glast = "None" =>
              /\ gwindows = ExpectedWindows(gset.n, gset.fft_len)
              /\ gbuffer = <<>>
              /\ gpos = gset.n
              /\ gset.n = 0 => gwindows = <<>>

\* C15 witness: a stream that ended inside a column: the last of several
\* columns is zero-padded, and the calls after it returned None.
C15_Witness ==
    /\ gpc = "polled"
    /\ glast = "None"
    /\ Len(gwindows) >= 2
    /\ gset.n % gset.fft_len # 0
    /\ gwindows[Len(gwindows)][gset.fft_len] = 0
    /\ gwindows[Len(gwindows)][1] # 0

(***************************************************************************)
(* The audio stage: pleep-audio/src/lib.rs.                                *)
(*                                                                         *)
(* Sample k of packet p is the number 10 * p + k; sample i of a stream     *)
(* held in memory is the number i; a zero used as padding is 0.  What the  *)
(* resampler returns for a chunk is the term [resampled |-> chunk].        *)
(***************************************************************************)
MaxPackets == 3
MaxPacketSamples == 2
MaxChunkSize == 3

\* a packet of the container: its track, whether the decoder accepts it, and
\* the number of samples of its channel 0
PacketPool ==
    { [track |-> "other", decode |-> "ok", len |-> 1],
      [track |-> "default", decode |-> "err", len |-> 0] }
    \cup { [track |-> "default", decode |-> "ok", len |-> l] : l \in 0..MaxPacketSamples }

RECURSIVE SeqsUpTo(_, _)
SeqsUpTo(S, n) ==
    IF n = 0 THEN { <<>> }
    ELSE SeqsUpTo(S, n - 1)
            \cup { Append(q, x) : q \in { r \in SeqsUpTo(S, n - 1) : Len(r) = n - 1 }, x \in S }

\* planes_slice[0] of packet p
main_channel(packets, p) == [k \in 1..packets[p].len |-> 10 * p + k]

NoItem == [some |-> FALSE, sample |-> 0]

\* the loop over format.next_packet() of ConvertingAudioIterator::next, with
\* pkt packets read so far and the buffer empty
RECURSIVE NextPacket(_, _)
NextPacket(packets, pkt) ==
    IF pkt >= Len(packets)
    THEN [item |-> NoItem, pkt |-> pkt, buffer |-> <<>>]
    ELSE IF packets[pkt + 1].track # "default"
    THEN NextPacket(packets, pkt + 1)
    ELSE IF packets[pkt + 1].decode = "err"
    THEN [item |-> NoItem, pkt |-> pkt + 1, buffer |-> <<>>]
    ELSE LET samples == main_channel(packets, pkt + 1)
         IN  IF samples = <<>>
             THEN [item |-> NoItem, pkt |-> pkt + 1, buffer |-> <<>>]
             ELSE [item |-> [some |-> TRUE, sample |-> Head(samples)],
                   pkt |-> pkt + 1, buffer |-> Tail(samples)]

\* ConvertingAudioIterator::next on the iterator state st
ConvertingAudioIterator_next(packets, st) ==
    IF st.buffer # <<>>
    THEN [item |-> [some |-> TRUE, sample |-> Head(st.buffer)],
          st |-> [st EXCEPT !.buffer = Tail(st.buffer)]]
    ELSE LET r == NextPacket(packets, st.pkt)
         IN  [item |-> r.item, st |-> [st EXCEPT !.pkt = r.pkt, !.buffer = r.buffer]]

\* next of the iterator that ResamplingChunksIterator wraps: the decoder, or
\* the iterator of a Vec of n samples
inner_iterator_next(a, st) ==
    IF a.source = "decoder" THEN ConvertingAudioIterator_next(a.packets, st)
    ELSE IF st.pos < a.n
    THEN [item |-> [some |-> TRUE, sample |-> st.pos + 1], st |-> [st EXCEPT !.pos = st.pos + 1]]
    ELSE [item |-> NoItem, st |-> st]

\* Mutant of ChunkFull: one sample more is taken before the break.
ChunkFullLate(samples, chunk_size) == Len(samples) > chunk_size

\* if samples.len() >= self.settings.chunk_size { break; }
ChunkFull(samples, chunk_size) == Len(samples) >= chunk_size

\* the while-let loop of ResamplingChunksIterator::next
RECURSIVE CollectChunk(_, _, _)
CollectChunk(a, st, samples) ==
    LET r == inner_iterator_next(a, st)
    IN  IF ~r.item.some THEN [samples |-> samples, st |-> r.st]
        ELSE IF ChunkFull(Append(samples, r.item.sample), a.chunk_size)
        THEN [samples |-> Append(samples, r.item.sample), st |-> r.st]
        ELSE CollectChunk(a, r.st, Append(samples, r.item.sample))

\* ResamplingChunksIterator::next: None, or the chunk given to the resampler
ResamplingChunksIterator_next(a, st) ==
    LET c == CollectChunk(a, st, <<>>)
    IN  IF c.samples = <<>>
        THEN [some |-> FALSE, chunk |-> <<>>, st |-> c.st]
        ELSE [some |-> TRUE, chunk |-> resize(c.samples, a.chunk_size, 0), st |-> c.st]

\* the pipelines: the decoder collected directly (remaining_to_audio of
\* ConvertingAudioIterator), the decoder behind the resampler
\* (remaining_to_audio of ResamplingChunksIterator), and a Vec of samples
\* behind the resampler (get_error)
AudioInputs ==
    { [source |-> "decoder", consumer |-> "collect", packets |-> ps, n |-> 0, chunk_size |-> 1] :
        ps \in SeqsUpTo(PacketPool, MaxPackets) }
    \cup { [source |-> "decoder", consumer |-> "resample", packets |-> ps, n |-> 0,
            chunk_size |-> c] :
            ps \in SeqsUpTo(PacketPool, MaxPackets), c \in 1..MaxChunkSize }
    \cup { [source |-> "vec", consumer |-> "resample", packets |-> <<>>, n |-> n,
            chunk_size |-> c] :
            n \in 0..MaxStream, c \in 1..MaxChunkSize }

InitAudio ==
    /\ CodecIdle
    /\ BuildIdle
    /\ SearchIdle
    /\ SpectIdle
    /\ HannIdle
    /\ aset \in AudioInputs
    /\ ainner = [pkt |-> 0, buffer |-> <<>>, pos |-> 0]
    /\ achunks = <<>>
    /\ aout = <<>>
    /\ alast = ""
    /\ apc = "running"

\* one turn of collect over ConvertingAudioIterator: it stops at the first None
CollectSample ==
    /\ apc = "running"
    /\ aset.consumer = "collect"
    /\ LET r == ConvertingAudioIterator_next(aset.packets, ainner)
       IN  /\ ainner' = r.st
           /\ aout' = IF r.item.some THEN Append(aout, r.item.sample) ELSE aout
           /\ alast' = IF r.item.some THEN "Some" ELSE "None"
           /\ apc' = IF r.item.some THEN "running" ELSE "done"
    /\ UNCHANGED <<aset, achunks, codecVars, buildVars, searchVars, spectVars, hannVars>>

\* one turn of flatten().collect() over ResamplingChunksIterator: the chunk
\* is resampled and its samples are collected; it stops at the first None
CollectChunkOfSamples ==
    /\ apc = "running"
    /\ aset.consumer = "resample"
    /\ LET r == ResamplingChunksIterator_next(aset, ainner)
       IN  /\ ainner' = r.st
           /\ achunks' = IF r.some THEN Append(achunks, r.chunk) ELSE achunks
           /\ aout' = IF r.some THEN Append(aout, [resampled |-> r.chunk]) ELSE aout
           /\ alast' = IF r.some THEN "Some" ELSE "None"
           /\ apc' = IF r.some THEN "running" ELSE "done"
    /\ UNCHANGED <<aset, codecVars, buildVars, searchVars, spectVars, hannVars>>

NextAudio == CollectSample \/ CollectChunkOfSamples

SpecAudio == InitAudio /\ [][NextAudio]_vars

(***************************************************************************)
(* Claims about the audio stage.                                           *)
(***************************************************************************)
IsFailing(pk) == pk.track = "default" /\ pk.decode = "err"

\* the index of the first default-track packet that fails to decode, or one
\* past the last packet
FirstFailing(packets) ==
    IF \E p \in 1..Len(packets) : IsFailing(packets[p])
    THEN CHOOSE p \in 1..Len(packets) :
            IsFailing(packets[p]) /\ \A q \in 1..(p - 1) : ~IsFailing(packets[q])
    ELSE Len(packets) + 1

\* the channel-0 samples of the default-track packets before packet p, in
\* packet order and sample order
RECURSIVE SamplesBefore(_, _)
SamplesBefore(packets, p) ==
    IF p <= 1 THEN <<>>
    ELSE SamplesBefore(packets, p - 1)
            \o (IF packets[p - 1].track = "default" /\ packets[p - 1].decode = "ok"
                THEN main_channel(packets, p - 1) ELSE <<>>)

\* the samples of the chunks, without the padding
RECURSIVE ChunkSamples(_)
ChunkSamples(chunks) ==
    IF chunks = <<>> THEN <<>>
    ELSE SelectSeq(Head(chunks), LAMBDA x : x # 0) \o ChunkSamples(Tail(chunks))

\* C14: once a default-track packet fails to decode the stream is over for
\* decoder -> resampler -> collect: no sample of a later packet reaches the
\* consumer, and every sample decoded before the failing packet does
\* (here: when every packet that decodes has a sample).
C14_DecodeErrorEndsTheStream ==
    (/\ apc # "idle"
     /\ aset.source = "decoder"
     /\ aset.consumer = "resample"
     /\ \A p \in 1..Len(aset.packets) :
            aset.packets[p].decode = "ok" => aset.packets[p].len >= 1
     /\ FirstFailing(aset.packets) <= Len(aset.packets))
        => /\ \A j \in 1..Len(aout) : \A k \in 1..Len(aout[j].resampled) :
                aout[j].resampled[k] \div 10 < FirstFailing(aset.packets)
           /\ apc = "done" =>
                ChunkSamples([j \in 1..Len(aout) |-> aout[j].resampled])
                    = SamplesBefore(aset.packets, FirstFailing(aset.packets))

\* the chunks of a stream of n samples: consecutive runs of c samples, the
\* last one filled up with zeros
ExpectedChunks(n, c) ==
    [j \in 1..CeilDiv(n, c) |->
        [k \in 1..c |-> IF (j - 1) * c + k <= n THEN (j - 1) * c + k ELSE 0]]

\* C16: for a stream of n samples and chunk_size c >= 1 the resampler is
\* given exactly ceil(n/c) chunks of exactly c samples: the samples in
\* their order, none dropped or repeated, only the last chunk padded with
\* zeros; nothing for n = 0; after the last chunk next returns None.
C16_ChunksOfTheStream ==
    (apc # "idle" /\ aset.source = "vec") =>
        /\ Len(achunks) <= CeilDiv(aset.n, aset.chunk_size)
        /\ achunks = SubSeq(ExpectedChunks(aset.n, aset.chunk_size), 1, Len(achunks))
        /\ \A j \in 1..Len(achunks) : Len(achunks[j]) = aset.chunk_size
        /\ Len(achunks) = CeilDiv(aset.n, aset.chunk_size) /\ apc = "running"
              => ~ResamplingChunksIterator_next(aset, ainner).some
        /\ alast = "None" =>
              /\ achunks = ExpectedChunks(aset.n, aset.chunk_size)
              /\ aset.n = 0 => achunks = <<>>

\* C16 witness: a stream that ended inside a chunk: several chunks, the last
\* one padded, then None.
C16_Witness ==
    /\ apc = "done"
    /\ aset.source = "vec"
    /\ alast = "None"
    /\ Len(achunks) >= 2
    /\ aset.n % aset.chunk_size # 0
    /\ achunks[Len(achunks)][1] # 0
    /\ achunks[Len(achunks)][aset.chunk_size] = 0

\* C17: ConvertingAudioIterator yields, in packet order and sample order,
\* every channel-0 sample of every default-track packet, skips the packets
\* of other tracks, and returns None only when no further packet is
\* available or a decode error occurred; a default-track packet of zero
\* samples does not end the stream while later packets remain.
C17_EverySampleOfTheDefaultTrack ==
    (apc # "idle" /\ aset.source = "decoder" /\ aset.consumer = "collect") =>
        /\ aout = SubSeq(SamplesBefore(aset.packets, FirstFailing(aset.packets)),
                         1, Len(aout))
        /\ alast = "None" =>
              \/ ainner.pkt = Len(aset.packets)
              \/ IsFailing(aset.packets[ainner.pkt])
        /\ (apc = "done" /\ FirstFailing(aset.packets) > Len(aset.packets))
              => aout = SamplesBefore(aset.packets, Len(aset.packets) + 1)

(***************************************************************************)
(* Claims about the channels, the tasks and the trim sweep.                *)
(***************************************************************************)
CountIn(q, v) == Cardinality({ k \in 1..Len(q) : q[k] = v })

BuildSent == { i \in DOMAIN btask : btask[i] = "sent" }

\* the least error among the maps of a set of tasks for segment index i
LeastOf(tasks, i) ==
    LET vals == { stask[t].scores[i] : t \in { u \in tasks : i \in DOMAIN stask[u].scores } }
    IN  IF vals = {} THEN INFINITY ELSE SetMin(vals)

\* C18: in the build driver and in the search, once every spawned task has
\* ended no sender of the channel is alive, so the receive loop is never
\* blocked on an empty channel; every result that was sent is in the
\* channel or has been received, exactly once, and the loop has ended only
\* with every sent result received.
C18_ReceiveLoopDeliversAndTerminates ==
    /\ bpc \in {"receiving", "written", "panicked_write"} =>
          /\ BuildSenders = 0
          /\ Len(segments) + Len(bchan) = Cardinality(BuildSent)
          /\ \A i \in BuildSent :
                CountIn(segments \o bchan, SegmentOf(corpus[i].path))
                    = Cardinality({ j \in BuildSent :
                                      SegmentOf(corpus[j].path) = SegmentOf(corpus[i].path) })
          /\ bpc # "receiving" => bchan = <<>>
    /\ spc \in {"merging", "done"} =>
          /\ SearchSenders = 0
          /\ schan \subseteq SentTasks
          /\ SentTasks = { t \in DOMAIN stask : stask[t].state # "unspawned" }
          /\ \A i \in 1..Len(errors) : errors[i] = LeastOf(SentTasks \ schan, i)
          /\ spc = "done" => schan = {}

\* C18 witness: a build that skipped an ignored file, received the segments
\* of its other files and ended its receive loop.
C18_Witness ==
    /\ bpc = "written"
    /\ Len(segments) >= 2
    /\ Len(segments) = Cardinality(BuildSent)
    /\ \E i \in DOMAIN btask : btask[i] = "skipped"
    /\ bchan = <<>>

\* the task has run and its resampler was constructed
ReachedTransformBuilt(t) ==
    /\ stask[t].state \in {"sent", "panicked"}
    /\ ResamplerConstructs(sopt.bs, sopt.sample_rate)

\* C19: only the step Prepared -> TransformBuilt (the construction of the
\* resampler) of a task can fail: every task that reaches TransformBuilt
\* sends its result map, whatever the query slice and the segments are.
C19_OnlyResamplerConstructionFails ==
    \A t \in DOMAIN stask :
        ReachedTransformBuilt(t) =>
            /\ stask[t].state = "sent"
            /\ t \in schan \/ spc \in {"merging", "done"}

\* segment without its first k vectors
Suffix(segment, k) == [j \in 1..(Len(segment) - k) |-> segment[j + k]]

MaxTrimSweep == 4

\* the sweep {0, step, 2*step, ...} up to size
SweepOf(size, step) == { t \in 0..size : t % step = 0 }

\* the segment of the index that entry i of trim set ti stands for
TrimOf(ti, i) ==
    Suffix(sopt.segs[i], Min(RemovePre(sopt, ti), Len(sopt.segs[i])))

\* C20: for segment_trim_step >= 1 there is one trim set for each t in
\* {0, step, 2*step, ...} with t <= segment_trim_size; entry i of each set
\* is segment i without its first min(t, len_i) vectors; so an error
\* recorded under index i by a task is that of segment i, is merged into
\* errors[i], and is reported with the title of segment i.
C20_TrimSetsKeepSegmentIndices ==
    /\ \A size \in 0..MaxTrimSweep : \A step \in 1..MaxTrimSweep :
          LET o == [segment_trim_size |-> size, segment_trim_step |-> step]
          IN  /\ NumTrims(o) = Cardinality(SweepOf(size, step))
              /\ { RemovePre(o, ti) : ti \in 1..NumTrims(o) } = SweepOf(size, step)
    /\ (spc # "idle" /\ sopt.segment_trim_step >= 1) =>
          /\ \A ti \in 1..NumTrims(sopt) :
                /\ Len(Trimmed(sopt, ti)) = Len(sopt.segs)
                /\ \A i \in 1..Len(sopt.segs) : Trimmed(sopt, ti)[i] = TrimOf(ti, i)
          /\ \A t \in SentTasks : \A i \in DOMAIN stask[t].scores :
                /\ i \in 1..Len(sopt.segs)
                /\ stask[t].scores[i] = MinWindowError(TaskSpectrogram(t), TrimOf(t[1], i))
          /\ spc = "done" =>
                \A p \in 1..Len(CommandOutput) :
                    \E i \in 1..Len(sopt.segs) :
                        /\ sopt.titles[i] = CommandOutput[p].title
                        /\ CommandOutput[p].score
                              = SetMin({ MinWindowError(TaskSpectrogram(t), TrimOf(t[1], i)) :
                                           t \in { u \in SentTasks : i \in DOMAIN stask[u].scores } })

\* C20 witness: a search with two trim sets over two segments, one of them
\* shorter than the trim, that reports the other segment with an error
\* that only the second trim set gives.
C20_Witness ==
    /\ spc = "done"
    /\ NumTrims(sopt) = 2
    /\ Len(sopt.segs) = 2
    /\ top_n # <<>>
    /\ \E i \in 1..2 :
          /\ Len(sopt.segs[3 - i]) < RemovePre(sopt, 2)
          /\ top_n[1].segment_index = i
          /\ \E k \in 0..sopt.extra_offsets :
                /\ i \in DOMAIN stask[<<2, k>>].scores
                /\ stask[<<2, k>>].scores[i] = top_n[1].mse
          /\ \A k \in 0..sopt.extra_offsets :
                i \in DOMAIN stask[<<1, k>>].scores
                    => stask[<<1, k>>].scores[i] > top_n[1].mse

(***************************************************************************)
(* The offsets of the query slices.                                        *)
(***************************************************************************)
MaxOffsetFactor == 3

\* the offset of the formula: one division by resample_rate * extra_offsets
SingleDivisionOffset(o, index) ==
    (index * o.sample_rate * o.bs.fft_size) \div (o.bs.resample_rate * o.extra_offsets)

\* the pass of the closure's loop for trim set ti has taken its slices and
\* spawned its tasks
SlicesTaken(ti) == spc # "idle" /\ ti <= strim

\* C21: for every k in 0..=extra_offsets, slice k of the query is the
\* suffix from offset floor(k * sample_rate * fft_size / (resample_rate *
\* extra_offsets)): the pass for a trim set never fails, it gives one slice
\* (one task) per k, slice 0 is the whole query, the offsets lie within the
\* query and do not decrease with k, and the code's two divisions give the
\* offset of the single division.
C21_SlicesAtFormulaOffsets ==
    /\ \A sr \in 1..MaxOffsetFactor : \A fft \in 1..MaxOffsetFactor :
       \A rr \in 1..MaxOffsetFactor : \A eo \in 1..MaxOffsetFactor :
          LET o == [sample_rate |-> sr, extra_offsets |-> eo,
                    bs |-> [fft_size |-> fft, resample_rate |-> rr]]
          IN  \A k \in 0..eo :
                /\ Offset(o, k) = SingleDivisionOffset(o, k)
                /\ k = 0 => Offset(o, k) = 0
                /\ k > 0 => Offset(o, k - 1) <= Offset(o, k)
    /\ spc # "unwinding"
    /\ \A ti \in 1..NumTrims(sopt) :
          SlicesTaken(ti) =>
              /\ Cardinality({ t \in DOMAIN stask : t[1] = ti }) = sopt.extra_offsets + 1
              /\ \A k \in 0..sopt.extra_offsets :
                    /\ stask[<<ti, k>>].state # "unspawned"
                    /\ Offset(sopt, k) = SingleDivisionOffset(sopt, k)
                    /\ Offset(sopt, k) <= sopt.nsamples
                    /\ k = 0 => Offset(sopt, k) = 0
                    /\ k > 0 => Offset(sopt, k - 1) <= Offset(sopt, k)

\* The part of C21 that is about passes that have taken their slices.
SlicesOfEndedPasses ==
    \A ti \in 1..NumTrims(sopt) :
        SlicesTaken(ti) =>
            \A k \in 0..sopt.extra_offsets :
                /\ stask[<<ti, k>>].state # "unspawned"
                /\ Offset(sopt, k) = SingleDivisionOffset(sopt, k)
                /\ Offset(sopt, k) <= sopt.nsamples

(***************************************************************************)
(* The FFT planner and the Hann cache (pleep/src/spectrogram.rs).  A call  *)
(* is one SpectrogramIterator::new; calls run concurrently on the worker   *)
(* threads.  generate_log_spectrogram makes a Generator of its own for     *)
(* every call ("per_call"); the crate also lets a caller hand the same     *)
(* Generator to several calls of SpectrogramIterator::new ("shared").      *)
(***************************************************************************)
MaxHannCalls == 2

HannLens == {2, 4}

\* 2 * cos(TAU * i / size), for the sizes that give whole numbers
TwoCos(i, size) ==
    LET twelfths == ((12 * i) \div size) % 12
    IN  CASE twelfths = 0 -> 2
          [] twelfths \in {2, 10} -> 1
          [] twelfths \in {3, 9} -> 0
          [] twelfths \in {4, 8} -> 0 - 1
          [] twelfths = 6 -> 0 - 2

\* generate_hanning_window: item i is 0.5 * (1 - cos(TAU * i / size)), here
\* in quarters
generate_hanning_window(size) == [x \in 1..size |-> 2 - TwoCos(x - 1, size)]

HannInputs ==
    { [wiring |-> w, fft_len |-> lens] :
        w \in {"per_call", "shared"},
        lens \in UNION { [1..n -> HannLens] : n \in 1..MaxHannCalls } }

\* the Generator that call c is given
GeneratorOf(c) == IF hset.wiring = "shared" THEN 0 ELSE c

NoHanns == [size \in {} |-> <<>>]

InitHann ==
    /\ CodecIdle
    /\ BuildIdle
    /\ SearchIdle
    /\ SpectIdle
    /\ AudioIdle
    /\ hset \in HannInputs
    /\ hcall = [c \in 1..Len(hset.fft_len) |->
                   [pc |-> "start", hann |-> <<>>, generated |-> FALSE, prior |-> FALSE]]
    /\ hanns = IF hset.wiring = "shared" THEN [g \in {0} |-> NoHanns] ELSE [g \in {} |-> NoHanns]
    /\ hreaders = [g \in DOMAIN hanns |-> {}]
    /\ hwriter = [g \in DOMAIN hanns |-> 0]
    /\ hplans = [g \in DOMAIN hanns |-> {}]
    /\ hmade = {}

\* Generator::new, in generate_log_spectrogram
Generator_new(c) ==
    /\ hcall[c].pc = "start"
    /\ hcall' = [hcall EXCEPT ![c].pc = "plan"]
    /\ IF GeneratorOf(c) \in DOMAIN hanns
       THEN UNCHANGED <<hanns, hreaders, hwriter, hplans>>
       ELSE /\ hanns' = [g \in DOMAIN hanns \cup {c} |-> IF g = c THEN NoHanns ELSE hanns[g]]
            /\ hreaders' = [g \in DOMAIN hanns' |-> IF g = c THEN {} ELSE hreaders[g]]
            /\ hwriter' = [g \in DOMAIN hanns' |-> IF g = c THEN 0 ELSE hwriter[g]]
            /\ hplans' = [g \in DOMAIN hanns' |-> IF g = c THEN {} ELSE hplans[g]]
    /\ UNCHANGED <<hset, hmade>>
    /\ UNCHANGED <<codecVars, buildVars, searchVars, spectVars, audioVars>>

\* get_forward_fft: the planner's lock is held for the one statement
get_forward_fft(c) ==
    /\ hcall[c].pc = "plan"
    /\ hplans' = [hplans EXCEPT ![GeneratorOf(c)] = @ \cup {hset.fft_len[c]}]
    /\ hcall' = [hcall EXCEPT ![c].pc = "read"]
    /\ UNCHANGED <<hset, hanns, hreaders, hwriter, hmade>>
    /\ UNCHANGED <<codecVars, buildVars, searchVars, spectVars, audioVars>>

\* get_hann: self.hanns.read()
get_hann_read(c) ==
    /\ hcall[c].pc = "read"
    /\ hwriter[GeneratorOf(c)] = 0
    /\ hreaders' = [hreaders EXCEPT ![GeneratorOf(c)] = @ \cup {c}]
    /\ hcall' = [hcall EXCEPT ![c].pc = "lookup", ![c].prior = hset.fft_len[c] \in hmade]
    /\ UNCHANGED <<hset, hanns, hwriter, hplans, hmade>>
    /\ UNCHANGED <<codecVars, buildVars, searchVars, spectVars, audioVars>>

\* the end of the call: in generate_log_spectrogram the Generator is a
\* local and is dropped
DropGenerator(c, m) ==
    IF hset.wiring = "shared" THEN m ELSE [g \in DOMAIN m \ {c} |-> m[g]]

\* get_hann: contains_key; on a hit the window is returned and the read
\* guard dropped with the function, on a miss the guard is dropped first
get_hann_lookup(c) ==
    LET g == GeneratorOf(c)
        size == hset.fft_len[c]
    IN  /\ hcall[c].pc = "lookup"
        /\ IF size \in DOMAIN hanns[g]
           THEN /\ hcall' = [hcall EXCEPT ![c].pc = "done", ![c].hann = hanns[g][size]]
                /\ hanns' = DropGenerator(c, hanns)
                /\ hreaders' = DropGenerator(c, [hreaders EXCEPT ![g] = @ \ {c}])
                /\ hwriter' = DropGenerator(c, hwriter)
                /\ hplans' = DropGenerator(c, hplans)
           ELSE /\ hcall' = [hcall EXCEPT ![c].pc = "generate"]
                /\ hreaders' = [hreaders EXCEPT ![g] = @ \ {c}]
                /\ UNCHANGED <<hanns, hwriter, hplans>>
        /\ UNCHANGED <<hset, hmade>>
        /\ UNCHANGED <<codecVars, buildVars, searchVars, spectVars, audioVars>>

\* generate_hann: the window is made with no lock held
generate_hann_make(c) ==
    /\ hcall[c].pc = "generate"
    /\ hcall' = [hcall EXCEPT ![c].pc = "write", ![c].generated = TRUE,
                              ![c].hann = generate_hanning_window(hset.fft_len[c])]
    /\ UNCHANGED <<hset, hanns, hreaders, hwriter, hplans, hmade>>
    /\ UNCHANGED <<codecVars, buildVars, searchVars, spectVars, audioVars>>

\* generate_hann: self.hanns.write()
generate_hann_write(c) ==
    /\ hcall[c].pc = "write"
    /\ hwriter[GeneratorOf(c)] = 0
    /\ hreaders[GeneratorOf(c)] = {}
    /\ hwriter' = [hwriter EXCEPT ![GeneratorOf(c)] = c]
    /\ hcall' = [hcall EXCEPT ![c].pc = "insert"]
    /\ UNCHANGED <<hset, hanns, hreaders, hplans, hmade>>
    /\ UNCHANGED <<codecVars, buildVars, searchVars, spectVars, audioVars>>

\* generate_hann: insert, then the write guard is dropped with the function
generate_hann_insert(c) ==
    LET g == GeneratorOf(c)
        size == hset.fft_len[c]
        inserted == [hanns EXCEPT ![g] =
                        [k \in DOMAIN hanns[g] \cup {size} |->
                            IF k = size THEN hcall[c].hann ELSE hanns[g][k]]]
    IN  /\ hcall[c].pc = "insert"
        /\ hanns' = DropGenerator(c, inserted)
        /\ hwriter' = DropGenerator(c, [hwriter EXCEPT ![g] = 0])
        /\ hreaders' = DropGenerator(c, hreaders)
        /\ hplans' = DropGenerator(c, hplans)
        /\ hmade' = hmade \cup {size}
        /\ hcall' = [hcall EXCEPT ![c].pc = "done"]
        /\ UNCHANGED hset
        /\ UNCHANGED <<codecVars, buildVars, searchVars, spectVars, audioVars>>

NextHann ==
    \E c \in DOMAIN hcall :
        \/ Generator_new(c)
        \/ get_forward_fft(c)
        \/ get_hann_read(c)
        \/ get_hann_lookup(c)
        \/ generate_hann_make(c)
        \/ generate_hann_write(c)
        \/ generate_hann_insert(c)

SpecHann == InitHann /\ [][NextHann]_vars

\* call c can take its next step
CanStep(c) ==
    CASE hcall[c].pc = "done" -> FALSE
      [] hcall[c].pc = "read" -> hwriter[GeneratorOf(c)] = 0
      [] hcall[c].pc = "write" ->
            hwriter[GeneratorOf(c)] = 0 /\ hreaders[GeneratorOf(c)] = {}
      [] OTHER -> TRUE

\* no two callers hold windows of different contents for one length, no
\* state is a deadlock, the lookup is made under the read lock, and a
\* window is generated only after a miss
HannCacheIsSound ==
    /\ \A c \in DOMAIN hcall : \A d \in DOMAIN hcall :
          (/\ hcall[c].pc = "done" /\ hcall[d].pc = "done"
           /\ hset.fft_len[c] = hset.fft_len[d]) => hcall[c].hann = hcall[d].hann
    /\ \A c \in DOMAIN hcall :
          hcall[c].pc = "done" => hcall[c].hann = generate_hanning_window(hset.fft_len[c])
    /\ (\E c \in DOMAIN hcall : hcall[c].pc # "done") => \E c \in DOMAIN hcall : CanStep(c)
    /\ \A c \in DOMAIN hcall :
          /\ hcall[c].pc = "lookup" => c \in hreaders[GeneratorOf(c)]
          /\ hcall[c].pc \in {"generate", "write", "insert"} =>
                hset.fft_len[c] \notin DOMAIN hanns[GeneratorOf(c)]
                    \/ \E d \in DOMAIN hcall \ {c} : hcall[d].generated
    /\ \A g \in DOMAIN hanns : hwriter[g] # 0 => hreaders[g] = {}

\* C22: Hann windows are memoised by fft_len in one cache shared by all the
\* tasks of the process: the window of a length is generated only on a
\* miss, and a request made after a window of that length was inserted is
\* served from the cache, never generated again; no interleaving deadlocks
\* or hands two callers windows of different contents.
C22_HannMemoisedForTheProcess ==
    hset # <<>> =>
        /\ HannCacheIsSound
        /\ \A c \in DOMAIN hcall : hcall[c].generated => ~hcall[c].prior

(***************************************************************************)
(* The assertion of SpectrogramIterator::next.                             *)
(***************************************************************************)
\* the buffer as the loop of the next call of next leaves it
BufferAtAssert == FillBuffer(gset.n, gset.fft_len, gpos, gbuffer)

\* C23: for every fft_len >= 1 and every input stream the assertion
\* buffer.len() <= fft_len of SpectrogramIterator::next never fails: between
\* calls the buffer holds fewer than fft_len samples, whenever a column is
\* computed the buffer holds exactly fft_len samples (so the drain of
\* fft_len samples stays within the buffer), and every column is computed
\* from fft_len samples.
C23_BufferAssertionNeverFails ==
    (gpc # "idle" /\ gset.fft_len >= 1) =>
        /\ Len(gbuffer) < gset.fft_len
        /\ ~BufferAtAssert.none => Len(BufferAtAssert.buffer) = gset.fft_len
        /\ SpectrogramIterator_next(gset, gpos, gbuffer).kind # "panic"
        /\ \A w \in DOMAIN gwindows : Len(gwindows[w]) = gset.fft_len

\* C23 witness: a stream that ended after a column of fft_len samples of
\* the stream and a column of its last samples filled up to fft_len.
C23_Witness ==
    /\ gpc = "ended"
    /\ gset.fft_len >= 2
    /\ gset.n > gset.fft_len
    /\ gset.n % gset.fft_len # 0
    /\ Len(gwindows) >= 2
    /\ gwindows[1] = [k \in 1..gset.fft_len |-> k]
    /\ gwindows[Len(gwindows)][gset.fft_len] = 0

====
